---------------------------- MODULE Spec2Model ----------------------------
(***************************************************************************)
(* Model of the bus trace decoder and verifier of mbed-ce-test-tools       *)
(* (CI-Shield-Tests/host_test_utils/sigrok_interface.py and the host tests *)
(* that use it).                                                           *)
(*                                                                         *)
(* Representation.  A text line is a sequence of one-character strings.    *)
(* The text an external sigrok-cli process writes on its standard output   *)
(* is held as the non-empty sequence of its newline-separated segments,    *)
(* which is what output.split("\n") returns (the empty text is the one     *)
(* empty segment); no segment holds a newline.                             *)
(***************************************************************************)
EXTENDS Integers, Sequences, FiniteSets, TLC

VARIABLES
    sigrok_process,     \* SigrokRecorderBase._sigrok_process: state of the process handle
    proc_stdout,        \* what the external process writes on its standard output
    has_cs_pin,         \* SigrokSPIRecorder._has_cs_pin
    pc,                 \* position of the running operation
    exc,                \* exception that left the operation, "none" if none
    line_idx,           \* number of lines the parse loop has consumed
    i2c_transaction,    \* local of SigrokI2CRecorder.get_result
    spi_data,           \* local of SigrokSPIRecorder.get_result (chip-select mode)
    previous_line_data, \* local of SigrokSPIRecorder.get_result: <<>> for None, else <<list>>
    mosi_bytes,         \* local of SigrokSPIRecorder.get_result (no chip select)
    miso_bytes,         \* local of SigrokSPIRecorder.get_result (no chip select)
    next_line_is_miso,  \* local of SigrokSPIRecorder.get_result (no chip select)
    result,             \* value the operation returned
    logger,             \* HtrunLogger: the messages printed so far, in order
    expected,           \* verifier argument
    actual,             \* verifier argument
    verifier,           \* the comparison that ran
    match,              \* verdict of the comparison
    sent_kv,            \* BaseHostTest.send_kv: the replies sent to the device, in order
    recorder,           \* class of the recorder object of a session
    op,                 \* the operation of the recorder called last
    launches,           \* number of processes the recorder has launched
    orphans,            \* states of the launched processes the handle no longer holds
    returncode,         \* Popen.returncode of the process in the handle: <<>> for None, else <<status>>
    exc_args,           \* what the exception that left the operation carries
    stdout_text,        \* characters the process in the handle writes on its standard output
    test_suite_output,  \* argument of _parse_test_suite: the output of one test suite
    database,           \* MbedTestDatabase: the rows of the TestCases table, in insertion order
    target_graph,       \* MbedTestDatabase: the rows of the TargetGraph table
    target_name,        \* argument of get_all_target_children, None before a call
    nodes_to_explore,   \* local of get_all_target_children
    all_children,       \* local of get_all_target_children
    transfer            \* <<the transfer a slave-comms callback was called for>>, <<>> before

procVars == <<sigrok_process, proc_stdout, has_cs_pin>>
ctlVars  == <<pc, exc, line_idx, result, logger>>
i2cVars  == <<i2c_transaction>>
spiVars  == <<spi_data, previous_line_data, mosi_bytes, miso_bytes, next_line_is_miso>>
verVars  == <<expected, actual, verifier, match, sent_kv>>
sesVars  == <<recorder, op, launches, orphans, returncode, exc_args, stdout_text>>
treVars  == <<test_suite_output, database, target_graph, target_name, nodes_to_explore,
              all_children>>
cbVars   == <<transfer>>
vars     == <<procVars, ctlVars, i2cVars, spiVars, verVars, sesVars, treVars, cbVars>>

None == "None"

(***************************************************************************)
(* Bounds of the model.                                                    *)
(***************************************************************************)
MaxI2CLines == 2
MaxSPILines == 3

(***************************************************************************)
(* Characters and Python's int(text, 16).                                  *)
(***************************************************************************)
HexDigitChars ==
    {"0", "1", "2", "3", "4", "5", "6", "7", "8", "9",
     "a", "b", "c", "d", "e", "f", "A", "B", "C", "D", "E", "F"}

UpperHexDigitChars ==
    {"0", "1", "2", "3", "4", "5", "6", "7", "8", "9",
     "A", "B", "C", "D", "E", "F"}

HexDigitValue(c) ==
    CASE c = "0" -> 0  [] c = "1" -> 1  [] c = "2" -> 2  [] c = "3" -> 3
      [] c = "4" -> 4  [] c = "5" -> 5  [] c = "6" -> 6  [] c = "7" -> 7
      [] c = "8" -> 8  [] c = "9" -> 9
      [] c \in {"a", "A"} -> 10  [] c \in {"b", "B"} -> 11
      [] c \in {"c", "C"} -> 12  [] c \in {"d", "D"} -> 13
      [] c \in {"e", "E"} -> 14  [] c \in {"f", "F"} -> 15

RECURSIVE HexValue(_)
HexValue(s) ==
    IF s = <<>> THEN 0
    ELSE 16 * HexValue(SubSeq(s, 1, Len(s) - 1)) + HexDigitValue(s[Len(s)])

RECURSIVE LStrip(_)
LStrip(s) == IF s # <<>> /\ s[1] = " " THEN LStrip(Tail(s)) ELSE s

RECURSIVE RStrip(_)
RStrip(s) ==
    IF s # <<>> /\ s[Len(s)] = " " THEN RStrip(SubSeq(s, 1, Len(s) - 1)) ELSE s

(* int(s, 16): surrounding whitespace is stripped, one sign is accepted,   *)
(* then one or more hex digits of either case; anything else raises        *)
(* ValueError.  (The "0x" prefix and "_" separators need at least three    *)
(* characters around a digit and no line of the model holds them.)         *)
PyIntBase16(s) ==
    LET t      == RStrip(LStrip(s))
        signed == t # <<>> /\ t[1] \in {"+", "-"}
        digits == IF signed THEN Tail(t) ELSE t
    IN  IF digits # <<>> /\ \A i \in 1..Len(digits) : digits[i] \in HexDigitChars
        THEN [ok |-> TRUE,
              val |-> IF signed /\ t[1] = "-" THEN 0 - HexValue(digits)
                      ELSE HexValue(digits)]
        ELSE [ok |-> FALSE, val |-> 0]

(***************************************************************************)
(* Regular expressions (re.compile(...).match: anchored at the start of    *)
(* the line, not at its end).  A match is [matched, group1].               *)
(***************************************************************************)
NoMatch == [matched |-> FALSE, group1 |-> <<>>]

StartsWith(line, lit) ==
    Len(line) >= Len(lit) /\ SubSeq(line, 1, Len(lit)) = lit

MatchLiteral(line, lit) ==
    IF StartsWith(line, lit) THEN [matched |-> TRUE, group1 |-> <<>>] ELSE NoMatch

(* literal followed by the group (..): any two characters *)
MatchLiteralThenTwo(line, lit) ==
    IF StartsWith(line, lit) /\ Len(line) >= Len(lit) + 2
    THEN [matched |-> TRUE, group1 |-> SubSeq(line, Len(lit) + 1, Len(lit) + 2)]
    ELSE NoMatch

I2C_PREFIX == <<"i", "2", "c", "-", "1", ":", " ">>
SPI_PREFIX == <<"s", "p", "i", "-", "1", ":", " ">>

SR_I2C_REPEATED_START(line) ==
    MatchLiteral(line, I2C_PREFIX \o <<"S", "t", "a", "r", "t", " ", "r", "e", "p", "e", "a", "t">>)

SR_I2C_START(line) ==
    MatchLiteral(line, I2C_PREFIX \o <<"S", "t", "a", "r", "t">>)

SR_I2C_WRITE_TO_ADDR(line) ==
    MatchLiteralThenTwo(line,
        I2C_PREFIX \o <<"A", "d", "d", "r", "e", "s", "s", " ", "w", "r", "i", "t", "e", ":", " ">>)

SR_I2C_READ_FROM_ADDR(line) ==
    MatchLiteralThenTwo(line,
        I2C_PREFIX \o <<"A", "d", "d", "r", "e", "s", "s", " ", "r", "e", "a", "d", ":", " ">>)

(* 'i2c-1: Data [^ ]+: (..)': [^ ]+ is one or more characters other than a *)
(* space, so it ends at the ':' that stands right before the first space.  *)
SR_I2C_DATA_BYTE(line) ==
    LET lit == I2C_PREFIX \o <<"D", "a", "t", "a", " ">>
        n   == Len(lit)
        ks  == {k \in 1..(Len(line) - n) :
                   /\ \A j \in 1..k : line[n + j] # " "
                   /\ Len(line) >= n + k + 4
                   /\ line[n + k + 1] = ":"
                   /\ line[n + k + 2] = " "}
    IN  IF StartsWith(line, lit) /\ ks # {}
        THEN LET k == CHOOSE k \in ks : \A o \in ks : o <= k
             IN  [matched |-> TRUE, group1 |-> SubSeq(line, n + k + 3, n + k + 4)]
        ELSE NoMatch

SR_I2C_ACK(line)  == MatchLiteral(line, I2C_PREFIX \o <<"A", "C", "K">>)
SR_I2C_NACK(line) == MatchLiteral(line, I2C_PREFIX \o <<"N", "A", "C", "K">>)
SR_I2C_STOP(line) == MatchLiteral(line, I2C_PREFIX \o <<"S", "t", "o", "p">>)

(***************************************************************************)
(* I2C bus events (the subclasses of I2CBusData).                          *)
(***************************************************************************)
I2CStart         == [kind |-> "I2CStart"]
I2CRepeatedStart == [kind |-> "I2CRepeatedStart"]
I2CWriteToAddr(address)  == [kind |-> "I2CWriteToAddr", address |-> address]
I2CReadFromAddr(address) == [kind |-> "I2CReadFromAddr", address |-> address]
I2CDataByte(data) == [kind |-> "I2CDataByte", data |-> data]
I2CAck  == [kind |-> "I2CAck"]
I2CNack == [kind |-> "I2CNack"]
I2CStop == [kind |-> "I2CStop"]


(***************************************************************************)
(* The captures the model feeds to the I2C decoder.                        *)
(***************************************************************************)
I2CLine(body) == I2C_PREFIX \o body

EmptyLine == <<>>
GarbageLine == <<"?", "?">>
LineStartRepeat == I2CLine(<<"S", "t", "a", "r", "t", " ", "r", "e", "p", "e", "a", "t">>)
LineStart == I2CLine(<<"S", "t", "a", "r", "t">>)
LineAck == I2CLine(<<"A", "C", "K">>)
LineNack == I2CLine(<<"N", "A", "C", "K">>)
LineStop == I2CLine(<<"S", "t", "o", "p">>)
LineRead == I2CLine(<<"R", "e", "a", "d">>)
LineWrite == I2CLine(<<"W", "r", "i", "t", "e">>)
LineAddressWrite(payload) ==
    I2CLine(<<"A", "d", "d", "r", "e", "s", "s", " ", "w", "r", "i", "t", "e", ":", " ">> \o payload)
LineAddressRead(payload) ==
    I2CLine(<<"A", "d", "d", "r", "e", "s", "s", " ", "r", "e", "a", "d", ":", " ">> \o payload)
LineDataWrite(payload) ==
    I2CLine(<<"D", "a", "t", "a", " ", "w", "r", "i", "t", "e", ":", " ">> \o payload)
LineDataRead(payload) ==
    I2CLine(<<"D", "a", "t", "a", " ", "r", "e", "a", "d", ":", " ">> \o payload)

I2CLines ==
    { EmptyLine, GarbageLine,
      LineStartRepeat, LineStart, LineAck, LineNack, LineStop, LineRead, LineWrite,
      LineAddressWrite(<<"a", "0">>),          \* well formed
      LineAddressRead(<<"A", "1">>),
      LineDataWrite(<<"0", "2">>),
      LineDataRead(<<"f", "F">>),
      LineAddressRead(<<"a">>),                \* one payload character: no match
      LineAddressWrite(<<"z", "z">>),          \* payload that is not hexadecimal
      LineDataWrite(<<"-", "a">>),             \* payload int() reads as -10
      LineDataRead(<<" ", "7">>),              \* payload int() reads as 7
      I2CLine(<<"D", "a", "t", "a", " ", ":", " ", "0", "0">>),  \* empty direction word
      I2CLine(<<"R", "e", "a", "d", "?">>) }   \* not the bare header line

RECURSIVE SeqsUpTo(_, _)
SeqsUpTo(S, n) ==
    IF n = 0 THEN {<<>>}
    ELSE LET shorter == SeqsUpTo(S, n - 1)
         IN  shorter \cup {Append(q, x) : q \in shorter, x \in S}

(* the capture of the I2C basic test's "correct_addr_only" sequence *)
CaptureCorrectAddrOnly ==
    <<LineStart, LineAddressWrite(<<"a", "0">>), LineAck, LineStop, EmptyLine>>

(* the capture of its "incorrect_addr_only_write" sequence *)
CaptureIncorrectAddrOnlyWrite ==
    <<LineStart, LineAddressWrite(<<"2", "0">>), LineNack, LineStop, EmptyLine>>

I2CCaptures ==
    (SeqsUpTo(I2CLines, MaxI2CLines) \ {<<>>})
        \cup {CaptureCorrectAddrOnly, CaptureIncorrectAddrOnlyWrite}

(***************************************************************************)
(* Initial values of the variables an operation does not use.              *)
(***************************************************************************)
InitCtl ==
    /\ pc = "idle"
    /\ exc = "none"
    /\ line_idx = 0
    /\ result = None
    /\ logger = <<>>

InitI2C == i2c_transaction = <<>>

InitSPI ==
    /\ spi_data = <<>>
    /\ previous_line_data = <<>>
    /\ mosi_bytes = <<>>
    /\ miso_bytes = <<>>
    /\ next_line_is_miso = TRUE

InitVer ==
    /\ expected = <<>>
    /\ actual = <<>>
    /\ verifier = None
    /\ match = TRUE
    /\ sent_kv = <<>>

InitSes ==
    /\ recorder = None
    /\ op = None
    /\ launches = 0
    /\ orphans = <<>>
    /\ returncode = <<>>
    /\ exc_args = <<>>
    /\ stdout_text = <<>>

InitCb == transfer = <<>>

InitTre ==
    /\ test_suite_output = <<>>
    /\ database = <<>>
    /\ target_graph = {}
    /\ target_name = None
    /\ nodes_to_explore = <<>>
    /\ all_children = {}

InitProc ==
    /\ sigrok_process = None
    /\ proc_stdout = <<EmptyLine>>
    /\ has_cs_pin = None

(***************************************************************************)
(* SigrokRecorderBase._get_sigrok_output: communicate(timeout=5) ends in   *)
(* one of three ways.                                                      *)
(***************************************************************************)
ProcessOutcomes == {"exit_0", "exit_nonzero", "timeout"}

(* _get_sigrok_output with the kill() of the except block left out *)
GetSigrokOutput_NoKill(outcome) ==
    CASE outcome = "timeout"      -> [process |-> "running", raised |-> "TimeoutExpired"]
      [] outcome = "exit_nonzero" -> [process |-> "exited_nonzero", raised |-> "RuntimeError"]
      [] outcome = "exit_0"       -> [process |-> "exited_0", raised |-> "none"]

(* the state of the handle and the exception _get_sigrok_output leaves with *)
GetSigrokOutput(outcome) ==
    CASE outcome = "timeout"      -> [process |-> "killed", raised |-> "TimeoutExpired"]
      [] outcome = "exit_nonzero" -> [process |-> "exited_nonzero", raised |-> "RuntimeError"]
      [] outcome = "exit_0"       -> [process |-> "exited_0", raised |-> "none"]

UnparsedWarning(line) ==
    [level |-> "wrn", text |-> "Unparsed Sigrok output", line |-> line]

(***************************************************************************)
(* SigrokI2CRecorder                                                       *)
(***************************************************************************)
Append1(item) == [op |-> "append", item |-> item]
Pass    == [op |-> "pass", item |-> None]
Warn    == [op |-> "warn", item |-> None]
RaiseValueError == [op |-> "raise", item |-> None]

(* the chain with the plain start marker tested first *)
I2CParseLine_StartFirst(line) ==
    IF SR_I2C_START(line).matched THEN Append1(I2CStart)
    ELSE IF SR_I2C_REPEATED_START(line).matched THEN Append1(I2CRepeatedStart)
    ELSE IF SR_I2C_WRITE_TO_ADDR(line).matched THEN
        LET write_address == PyIntBase16(SR_I2C_WRITE_TO_ADDR(line).group1)
        IN  IF write_address.ok THEN Append1(I2CWriteToAddr(write_address.val))
            ELSE RaiseValueError
    ELSE IF SR_I2C_READ_FROM_ADDR(line).matched THEN
        LET read_address == PyIntBase16(SR_I2C_READ_FROM_ADDR(line).group1)
        IN  IF read_address.ok THEN Append1(I2CReadFromAddr(read_address.val))
            ELSE RaiseValueError
    ELSE IF SR_I2C_DATA_BYTE(line).matched THEN
        LET data == PyIntBase16(SR_I2C_DATA_BYTE(line).group1)
        IN  IF data.ok THEN Append1(I2CDataByte(data.val))
            ELSE RaiseValueError
    ELSE IF SR_I2C_ACK(line).matched THEN Append1(I2CAck)
    ELSE IF SR_I2C_NACK(line).matched THEN Append1(I2CNack)
    ELSE IF SR_I2C_STOP(line).matched THEN Append1(I2CStop)
    ELSE IF line = LineRead \/ line = LineWrite \/ Len(line) = 0 THEN Pass
    ELSE Warn

(* the if/elif chain of the parse loop, for one line *)
I2CParseLine(line) ==
    IF SR_I2C_REPEATED_START(line).matched THEN Append1(I2CRepeatedStart)
    ELSE IF SR_I2C_START(line).matched THEN Append1(I2CStart)
    ELSE IF SR_I2C_WRITE_TO_ADDR(line).matched THEN
        LET write_address == PyIntBase16(SR_I2C_WRITE_TO_ADDR(line).group1)
        IN  IF write_address.ok THEN Append1(I2CWriteToAddr(write_address.val))
            ELSE RaiseValueError
    ELSE IF SR_I2C_READ_FROM_ADDR(line).matched THEN
        LET read_address == PyIntBase16(SR_I2C_READ_FROM_ADDR(line).group1)
        IN  IF read_address.ok THEN Append1(I2CReadFromAddr(read_address.val))
            ELSE RaiseValueError
    ELSE IF SR_I2C_DATA_BYTE(line).matched THEN
        LET data == PyIntBase16(SR_I2C_DATA_BYTE(line).group1)
        IN  IF data.ok THEN Append1(I2CDataByte(data.val))
            ELSE RaiseValueError
    ELSE IF SR_I2C_ACK(line).matched THEN Append1(I2CAck)
    ELSE IF SR_I2C_NACK(line).matched THEN Append1(I2CNack)
    ELSE IF SR_I2C_STOP(line).matched THEN Append1(I2CStop)
    ELSE IF line = LineRead \/ line = LineWrite \/ Len(line) = 0 THEN Pass
    ELSE Warn

(* SigrokI2CRecorder.record: launches the process, whose output is what    *)
(* the bus will have shown by the time it exits                            *)
I2CRecord ==
    /\ pc = "idle"
    /\ \E out \in I2CCaptures : proc_stdout' = out
    /\ sigrok_process' = "running"
    /\ pc' = "recording"
    /\ UNCHANGED <<has_cs_pin, exc, line_idx, result, logger, i2cVars, spiVars, verVars, sesVars,
                   treVars, cbVars>>

(* get_result, up to the parse loop: a timeout is answered with [] *)
I2CGetResultOutput(outcome) ==
    /\ pc = "recording"
    /\ LET got == GetSigrokOutput(outcome)
       IN  /\ sigrok_process' = got.process
           /\ IF got.raised = "TimeoutExpired"
              THEN pc' = "returned" /\ result' = <<>> /\ exc' = exc
              ELSE IF got.raised # "none"
              THEN pc' = "raised" /\ exc' = got.raised /\ result' = result
              ELSE pc' = "loop" /\ exc' = exc /\ result' = result
    /\ UNCHANGED <<proc_stdout, has_cs_pin, line_idx, logger, i2cVars, spiVars, verVars, sesVars,
                   treVars, cbVars>>

(* the loop iteration with the event put at the front of the list *)
I2CGetResultLine_Prepend ==
    /\ pc = "loop"
    /\ line_idx < Len(proc_stdout)
    /\ LET line == proc_stdout[line_idx + 1]
           todo == I2CParseLine(line)
       IN  IF todo.op = "raise"
           THEN /\ pc' = "raised"
                /\ exc' = "ValueError"
                /\ UNCHANGED <<line_idx, logger, i2c_transaction>>
           ELSE /\ line_idx' = line_idx + 1
                /\ i2c_transaction' =
                      IF todo.op = "append" THEN <<todo.item>> \o i2c_transaction
                      ELSE i2c_transaction
                /\ logger' =
                      IF todo.op = "warn" THEN Append(logger, UnparsedWarning(line))
                      ELSE logger
                /\ UNCHANGED <<pc, exc>>
    /\ UNCHANGED <<procVars, result, spiVars, verVars, sesVars, treVars, cbVars>>

(* one iteration of the parse loop, over communicate()[0].split("\n"): the *)
(* second communicate() of an exited process returns the same text         *)
I2CGetResultLine ==
    /\ pc = "loop"
    /\ line_idx < Len(proc_stdout)
    /\ LET line == proc_stdout[line_idx + 1]
           todo == I2CParseLine(line)
       IN  IF todo.op = "raise"
           THEN /\ pc' = "raised"
                /\ exc' = "ValueError"
                /\ UNCHANGED <<line_idx, logger, i2c_transaction>>
           ELSE /\ line_idx' = line_idx + 1
                /\ i2c_transaction' =
                      IF todo.op = "append" THEN Append(i2c_transaction, todo.item)
                      ELSE i2c_transaction
                /\ logger' =
                      IF todo.op = "warn" THEN Append(logger, UnparsedWarning(line))
                      ELSE logger
                /\ UNCHANGED <<pc, exc>>
    /\ UNCHANGED <<procVars, result, spiVars, verVars, sesVars, treVars, cbVars>>

I2CGetResultReturn ==
    /\ pc = "loop"
    /\ line_idx = Len(proc_stdout)
    /\ pc' = "returned"
    /\ result' = i2c_transaction
    /\ UNCHANGED <<procVars, exc, line_idx, logger, i2cVars, spiVars, verVars, sesVars,
                   treVars, cbVars>>

InitI2CDecoder == InitProc /\ InitCtl /\ InitI2C /\ InitSPI /\ InitVer /\ InitSes /\ InitTre /\ InitCb

NextI2CDecoder ==
    \/ I2CRecord
    \/ \E outcome \in ProcessOutcomes : I2CGetResultOutput(outcome)
    \/ I2CGetResultLine
    \/ I2CGetResultReturn

SpecI2CDecoder == InitI2CDecoder /\ [][NextI2CDecoder]_vars

(***************************************************************************)
(* SPITransaction and SigrokSPIRecorder                                    *)
(***************************************************************************)
(* 'spi-1: ([0-9A-F ]+)': the group is the longest run of upper-case hex   *)
(* digits and spaces after the prefix, at least one character long         *)
SR_SPI_DATA_BYTES(line) ==
    LET n    == Len(SPI_PREFIX)
        InClass(c) == c \in UpperHexDigitChars \/ c = " "
        runs == {k \in 1..(Len(line) - n) : \A j \in 1..k : InClass(line[n + j])}
    IN  IF StartsWith(line, SPI_PREFIX) /\ runs # {}
        THEN LET longest == CHOOSE k \in runs : \A o \in runs : o <= k
             IN  [matched |-> TRUE, group1 |-> SubSeq(line, n + 1, n + longest)]
        ELSE NoMatch

(* str.split(" "): cuts at every single space, keeping empty pieces *)
RECURSIVE SplitOnSpace(_)
SplitOnSpace(s) ==
    LET spaces == {i \in 1..Len(s) : s[i] = " "}
    IN  IF spaces = {} THEN <<s>>
        ELSE LET first == CHOOSE i \in spaces : \A o \in spaces : i <= o
             IN  <<SubSeq(s, 1, first - 1)>> \o SplitOnSpace(SubSeq(s, first + 1, Len(s)))

(* bytes(values) of an iterable of integers *)
BytesOk(values) == \A i \in 1..Len(values) : values[i] \in 0..255

(* the construction with the length check left out *)
SPITransaction_NoLengthCheck(mosi, miso) ==
    IF ~BytesOk(mosi) \/ ~BytesOk(miso)
    THEN [raised |-> "ValueError", mosi_bytes |-> <<>>, miso_bytes |-> <<>>]
    ELSE [raised |-> "none", mosi_bytes |-> mosi, miso_bytes |-> miso]

(* the construction refusing empty byte sequences *)
SPITransaction_RejectEmpty(mosi, miso) ==
    IF ~BytesOk(mosi) \/ ~BytesOk(miso) \/ Len(mosi) # Len(miso) \/ Len(mosi) = 0
    THEN [raised |-> "ValueError", mosi_bytes |-> <<>>, miso_bytes |-> <<>>]
    ELSE [raised |-> "none", mosi_bytes |-> mosi, miso_bytes |-> miso]

(* SPITransaction.__init__: the object, or the ValueError of bytes() or of *)
(* the length check                                                        *)
SPITransaction(mosi, miso) ==
    IF ~BytesOk(mosi) \/ ~BytesOk(miso) \/ Len(mosi) # Len(miso)
    THEN [raised |-> "ValueError", mosi_bytes |-> <<>>, miso_bytes |-> <<>>]
    ELSE [raised |-> "none", mosi_bytes |-> mosi, miso_bytes |-> miso]

(* the transaction as a value: the two fields *)
Txn(made) == [mosi_bytes |-> made.mosi_bytes, miso_bytes |-> made.miso_bytes]

(* the chip-select branch with unparsed lines skipped silently *)
SPIParseLineCS_NoWarning(line) ==
    IF line = EmptyLine THEN [op |-> "skip", byte_values |-> <<>>]
    ELSE IF ~SR_SPI_DATA_BYTES(line).matched THEN [op |-> "skip", byte_values |-> <<>>]
    ELSE LET byte_strings == SplitOnSpace(SR_SPI_DATA_BYTES(line).group1)
         IN  IF \E i \in 1..Len(byte_strings) : ~PyIntBase16(byte_strings[i]).ok
             THEN [op |-> "raise", byte_values |-> <<>>]
             ELSE [op |-> "bytes",
                   byte_values |-> [i \in 1..Len(byte_strings) |->
                                       PyIntBase16(byte_strings[i]).val]]

(* chip-select branch, one line, up to the list of byte values *)
SPIParseLineCS(line) ==
    IF line = EmptyLine THEN [op |-> "skip", byte_values |-> <<>>]
    ELSE IF ~SR_SPI_DATA_BYTES(line).matched THEN [op |-> "warn", byte_values |-> <<>>]
    ELSE LET byte_strings == SplitOnSpace(SR_SPI_DATA_BYTES(line).group1)
         IN  IF \E i \in 1..Len(byte_strings) : ~PyIntBase16(byte_strings[i]).ok
             THEN [op |-> "raise", byte_values |-> <<>>]
             ELSE [op |-> "bytes",
                   byte_values |-> [i \in 1..Len(byte_strings) |->
                                       PyIntBase16(byte_strings[i]).val]]

(* Optional[List[int]]: no list, or one *)
NoList == <<>>
SomeList(values) == <<values>>

(* the pairing with the two lines of a pair exchanged *)
SPIPairLines_Swapped(previous, byte_values) ==
    IF previous = NoList
    THEN [raised |-> "none", previous |-> SomeList(byte_values), made |-> <<>>]
    ELSE LET made == SPITransaction(previous[1], byte_values)
         IN  IF made.raised # "none"
             THEN [raised |-> made.raised, previous |-> previous, made |-> <<>>]
             ELSE [raised |-> "none", previous |-> NoList, made |-> <<Txn(made)>>]

(* chip-select branch: a line is kept as the first of a pair, or completes *)
(* the pair as SPITransaction(mosi_bytes=byte_values, miso_bytes=previous) *)
SPIPairLines(previous, byte_values) ==
    IF previous = NoList
    THEN [raised |-> "none", previous |-> SomeList(byte_values), made |-> <<>>]
    ELSE LET made == SPITransaction(byte_values, previous[1])
         IN  IF made.raised # "none"
             THEN [raised |-> made.raised, previous |-> previous, made |-> <<>>]
             ELSE [raised |-> "none", previous |-> NoList, made |-> <<Txn(made)>>]

(* branch without chip select, one line, up to the byte value *)
SPIParseLineNoCS(line) ==
    IF line = EmptyLine THEN [op |-> "skip", byte_value |-> 0]
    ELSE IF ~SR_SPI_DATA_BYTES(line).matched THEN [op |-> "warn", byte_value |-> 0]
    ELSE LET byte_value == PyIntBase16(SR_SPI_DATA_BYTES(line).group1)
         IN  IF ~byte_value.ok THEN [op |-> "raise", byte_value |-> 0]
             ELSE [op |-> "byte", byte_value |-> byte_value.val]

(* the alternation starting with MOSI *)
SPIAlternate_MosiFirst(is_miso, miso, mosi, byte_value) ==
    IF ~is_miso
    THEN [miso |-> Append(miso, byte_value), mosi |-> mosi, is_miso |-> TRUE]
    ELSE [miso |-> miso, mosi |-> Append(mosi, byte_value), is_miso |-> FALSE]

(* branch without chip select: the byte goes to MISO and MOSI in turn *)
SPIAlternate(is_miso, miso, mosi, byte_value) ==
    IF is_miso
    THEN [miso |-> Append(miso, byte_value), mosi |-> mosi, is_miso |-> FALSE]
    ELSE [miso |-> miso, mosi |-> Append(mosi, byte_value), is_miso |-> TRUE]

SPILine(body) == SPI_PREFIX \o body

SPILines ==
    { EmptyLine, GarbageLine,
      SPILine(<<"0", "1">>),
      SPILine(<<"0", "2">>),
      SPILine(<<"0", "1", " ", "0", "2">>),
      SPILine(<<"F">>),                        \* one digit
      SPILine(<<"a", "b">>),                   \* lower case: no match
      SPILine(<<"0", "1", " ">>),              \* space after the last byte
      SPILine(<<"0", "1", "0", "2">>) }        \* no space between two bytes

(* the captures of the two SPI examples *)
CaptureTwoByteTransfer ==
    <<SPILine(<<"0", "1", " ", "0", "2">>), SPILine(<<"0", "1", " ", "0", "2">>), EmptyLine>>

CaptureAlternatingBytes ==
    <<SPILine(<<"0", "1">>), SPILine(<<"0", "2">>),
      SPILine(<<"0", "3">>), SPILine(<<"0", "4">>), EmptyLine>>

(* two transfers, and a transfer interrupted by an unparsed line and       *)
(* followed by a line without partner                                      *)
CaptureTwoTransfers ==
    <<SPILine(<<"0", "1">>), SPILine(<<"0", "2">>),
      SPILine(<<"F">>), SPILine(<<"0", "1">>), EmptyLine>>

CaptureInterruptedPair ==
    <<SPILine(<<"0", "1">>), GarbageLine,
      SPILine(<<"0", "2">>), SPILine(<<"F">>), EmptyLine>>

SPICaptures ==
    (SeqsUpTo(SPILines, MaxSPILines) \ {<<>>})
        \cup {CaptureTwoByteTransfer, CaptureAlternatingBytes,
              CaptureTwoTransfers, CaptureInterruptedPair}

(* SigrokSPIRecorder.record *)
SPIRecord ==
    /\ pc = "idle"
    /\ \E cs_pin \in {None, "D0"} : has_cs_pin' = (cs_pin # None)
    /\ \E out \in SPICaptures : proc_stdout' = out
    /\ sigrok_process' = "running"
    /\ pc' = "recording"
    /\ UNCHANGED <<exc, line_idx, result, logger, i2cVars, spiVars, verVars, sesVars,
                   treVars, cbVars>>

(* get_result, up to the parse loop: every failure of the process leaves   *)
(* get_result as an exception                                              *)
SPIGetResultOutput(outcome) ==
    /\ pc = "recording"
    /\ LET got == GetSigrokOutput(outcome)
       IN  /\ sigrok_process' = got.process
           /\ IF got.raised # "none"
              THEN pc' = "raised" /\ exc' = got.raised
              ELSE pc' = "loop" /\ exc' = exc
    /\ UNCHANGED <<proc_stdout, has_cs_pin, line_idx, result, logger,
                   i2cVars, spiVars, verVars, sesVars, treVars, cbVars>>

SPIGetResultLineCS ==
    /\ pc = "loop"
    /\ has_cs_pin = TRUE
    /\ line_idx < Len(proc_stdout)
    /\ LET line   == proc_stdout[line_idx + 1]
           parsed == SPIParseLineCS(line)
           paired == SPIPairLines(previous_line_data, parsed.byte_values)
       IN  IF parsed.op = "raise" \/ (parsed.op = "bytes" /\ paired.raised # "none")
           THEN /\ pc' = "raised"
                /\ exc' = "ValueError"
                /\ UNCHANGED <<line_idx, logger, spi_data, previous_line_data>>
           ELSE /\ line_idx' = line_idx + 1
                /\ logger' = IF parsed.op = "warn"
                             THEN Append(logger, UnparsedWarning(line)) ELSE logger
                /\ IF parsed.op = "bytes"
                   THEN /\ previous_line_data' = paired.previous
                        /\ spi_data' = spi_data \o paired.made
                   ELSE UNCHANGED <<spi_data, previous_line_data>>
                /\ UNCHANGED <<pc, exc>>
    /\ UNCHANGED <<procVars, result, i2cVars, mosi_bytes, miso_bytes,
                   next_line_is_miso, verVars, sesVars, treVars, cbVars>>

SPIGetResultReturnCS ==
    /\ pc = "loop"
    /\ has_cs_pin = TRUE
    /\ line_idx = Len(proc_stdout)
    /\ pc' = "returned"
    /\ result' = spi_data
    /\ UNCHANGED <<procVars, exc, line_idx, logger, i2cVars, spiVars, verVars, sesVars,
                   treVars, cbVars>>

SPIGetResultLineNoCS ==
    /\ pc = "loop"
    /\ has_cs_pin = FALSE
    /\ line_idx < Len(proc_stdout)
    /\ LET line   == proc_stdout[line_idx + 1]
           parsed == SPIParseLineNoCS(line)
           next   == SPIAlternate(next_line_is_miso, miso_bytes, mosi_bytes,
                                  parsed.byte_value)
       IN  IF parsed.op = "raise"
           THEN /\ pc' = "raised"
                /\ exc' = "ValueError"
                /\ UNCHANGED <<line_idx, logger, mosi_bytes, miso_bytes, next_line_is_miso>>
           ELSE /\ line_idx' = line_idx + 1
                /\ logger' = IF parsed.op = "warn"
                             THEN Append(logger, UnparsedWarning(line)) ELSE logger
                /\ IF parsed.op = "byte"
                   THEN /\ miso_bytes' = next.miso
                        /\ mosi_bytes' = next.mosi
                        /\ next_line_is_miso' = next.is_miso
                   ELSE UNCHANGED <<mosi_bytes, miso_bytes, next_line_is_miso>>
                /\ UNCHANGED <<pc, exc>>
    /\ UNCHANGED <<procVars, result, i2cVars, spi_data, previous_line_data, verVars, sesVars,
                   treVars, cbVars>>

(* return [SPITransaction(miso_bytes=miso_bytes, mosi_bytes=mosi_bytes)] *)
SPIGetResultReturnNoCS ==
    /\ pc = "loop"
    /\ has_cs_pin = FALSE
    /\ line_idx = Len(proc_stdout)
    /\ LET made == SPITransaction(mosi_bytes, miso_bytes)
       IN  IF made.raised # "none"
           THEN pc' = "raised" /\ exc' = made.raised /\ result' = result
           ELSE pc' = "returned" /\ exc' = exc /\ result' = <<Txn(made)>>
    /\ UNCHANGED <<procVars, line_idx, logger, i2cVars, spiVars, verVars, sesVars,
                   treVars, cbVars>>

InitSPIDecoder == InitProc /\ InitCtl /\ InitI2C /\ InitSPI /\ InitVer /\ InitSes /\ InitTre /\ InitCb

NextSPIDecoder ==
    \/ SPIRecord
    \/ \E outcome \in ProcessOutcomes : SPIGetResultOutput(outcome)
    \/ SPIGetResultLineCS
    \/ SPIGetResultReturnCS
    \/ SPIGetResultLineNoCS
    \/ SPIGetResultReturnNoCS

SpecSPIDecoder == InitSPIDecoder /\ [][NextSPIDecoder]_vars

(***************************************************************************)
(* The verifiers: pretty_diff_i2c_data, pretty_diff_spi_data and the       *)
(* check of the I2C basic test.                                            *)
(***************************************************************************)
MaxVerifyLen == 2

PrnInf(text, data) == [level |-> "inf", text |-> text, data |-> data]
PrnErr(text, data) == [level |-> "err", text |-> text, data |-> data]

(* __eq__ that compares the numbers of two events, whatever their classes *)
I2CEq_NumberOnly(self, other) ==
    LET Number(event) ==
            CASE event.kind \in {"I2CWriteToAddr", "I2CReadFromAddr"} -> <<event.address>>
              [] event.kind = "I2CDataByte" -> <<event.data>>
              [] OTHER -> <<>>
    IN  IF Number(self) # <<>> /\ Number(other) # <<>>
        THEN Number(self) = Number(other)
        ELSE self.kind = other.kind

(* __eq__ of the I2C event classes: isinstance, then the field *)
I2CEq(self, other) ==
    CASE self.kind = "I2CStart"         -> other.kind = "I2CStart"
      [] self.kind = "I2CRepeatedStart" -> other.kind = "I2CRepeatedStart"
      [] self.kind = "I2CWriteToAddr"   ->
            IF other.kind = "I2CWriteToAddr" THEN other.address = self.address ELSE FALSE
      [] self.kind = "I2CReadFromAddr"  ->
            IF other.kind = "I2CReadFromAddr" THEN other.address = self.address ELSE FALSE
      [] self.kind = "I2CDataByte"      ->
            IF other.kind = "I2CDataByte" THEN other.data = self.data ELSE FALSE
      [] self.kind = "I2CAck"           -> other.kind = "I2CAck"
      [] self.kind = "I2CNack"          -> other.kind = "I2CNack"
      [] self.kind = "I2CStop"          -> other.kind = "I2CStop"

(* expected_item != actual_item: the inverse of expected_item.__eq__ *)
I2CNe(self, other) == ~I2CEq(self, other)

(* __str__ of the I2C event classes: the text and the number formatted *)
I2CStr(self) ==
    CASE self.kind = "I2CStart"         -> [str |-> "Start"]
      [] self.kind = "I2CRepeatedStart" -> [str |-> "RepeatedStart"]
      [] self.kind = "I2CWriteToAddr"   -> [str |-> "Wr", hex |-> self.address]
      [] self.kind = "I2CReadFromAddr"  -> [str |-> "Rd", hex |-> self.address]
      [] self.kind = "I2CDataByte"      -> [str |-> "0x", hex |-> self.data]
      [] self.kind = "I2CAck"           -> [str |-> "Ack"]
      [] self.kind = "I2CNack"          -> [str |-> "Nack"]
      [] self.kind = "I2CStop"          -> [str |-> "Stop"]

(* " ".join(str(item) for item in data) *)
JoinStr(data) == [i \in 1..Len(data) |-> I2CStr(data[i])]

(* pretty_print_i2c_data: one text line per transaction, closed by every   *)
(* I2CStop, and one for what follows the last stop                         *)
RECURSIVE PrettyPrintI2CData(_)
PrettyPrintI2CData(data) ==
    LET stops == {i \in 1..Len(data) : data[i].kind = "I2CStop"}
    IN  IF data = <<>> THEN <<>>
        ELSE IF stops = {} THEN <<JoinStr(data)>>
        ELSE LET first == CHOOSE i \in stops : \A o \in stops : i <= o
             IN  <<JoinStr(SubSeq(data, 1, first))>>
                    \o PrettyPrintI2CData(SubSeq(data, first + 1, Len(data)))

(* zip(expected, actual) stops with the shorter list *)
ZipLen(expected_items, actual_items) ==
    IF Len(expected_items) <= Len(actual_items) THEN Len(expected_items)
    ELSE Len(actual_items)

DataItemError(idx, expected_item, actual_item) ==
    [index |-> idx, expected |-> I2CStr(expected_item), actual |-> I2CStr(actual_item)]

(* the loop leaving at the first item that differs *)
RECURSIVE I2CDiffLoop_StopAtFirst(_, _, _)
I2CDiffLoop_StopAtFirst(expected_items, actual_items, n) ==
    IF n = 0 THEN [match |-> TRUE, log |-> <<>>]
    ELSE LET before == I2CDiffLoop_StopAtFirst(expected_items, actual_items, n - 1)
         IN  IF before.match /\ I2CNe(expected_items[n], actual_items[n])
             THEN [match |-> FALSE,
                   log |-> Append(before.log,
                              PrnErr("Data item at index",
                                     DataItemError(n - 1, expected_items[n], actual_items[n])))]
             ELSE before

(* the first n rounds of the loop over enumerate(zip(expected, actual)) *)
RECURSIVE I2CDiffLoop(_, _, _)
I2CDiffLoop(expected_items, actual_items, n) ==
    IF n = 0 THEN [match |-> TRUE, log |-> <<>>]
    ELSE LET before == I2CDiffLoop(expected_items, actual_items, n - 1)
         IN  IF I2CNe(expected_items[n], actual_items[n])
             THEN [match |-> FALSE,
                   log |-> Append(before.log,
                              PrnErr("Data item at index",
                                     DataItemError(n - 1, expected_items[n], actual_items[n])))]
             ELSE before

(* pretty_diff_i2c_data without the comparison of the lengths *)
PrettyDiffI2CData_NoLengthCheck(expected_items, actual_items) ==
    LET saw  == IF Len(actual_items) > 0
                THEN PrnInf("Saw on the I2C bus", PrettyPrintI2CData(actual_items))
                ELSE PrnInf("Saw nothing the I2C bus.", <<>>)
        diff == I2CDiffLoop(expected_items, actual_items, ZipLen(expected_items, actual_items))
        tail == IF ~diff.match
                THEN <<PrnInf("We expected", PrettyPrintI2CData(expected_items))>>
                ELSE <<>>
    IN  [match |-> diff.match, log |-> <<saw>> \o diff.log \o tail]

(* pretty_diff_i2c_data: the verdict and the messages logged *)
PrettyDiffI2CData(expected_items, actual_items) ==
    LET saw  == IF Len(actual_items) > 0
                THEN PrnInf("Saw on the I2C bus", PrettyPrintI2CData(actual_items))
                ELSE PrnInf("Saw nothing the I2C bus.", <<>>)
        diff == IF Len(expected_items) # Len(actual_items)
                THEN [match |-> FALSE,
                      log |-> <<PrnErr("Expected length differs from actual!", <<>>)>>]
                ELSE I2CDiffLoop(expected_items, actual_items,
                                 ZipLen(expected_items, actual_items))
        tail == IF ~diff.match
                THEN <<PrnInf("We expected", PrettyPrintI2CData(expected_items))>>
                ELSE <<>>
    IN  [match |-> diff.match, log |-> <<saw>> \o diff.log \o tail]

ByteError(transaction_idx, byte_idx, expected_byte, actual_byte) ==
    [transaction |-> transaction_idx, byte |-> byte_idx,
     expected |-> expected_byte, actual |-> actual_byte]

(* the first n rounds of the loop over byte_idx; indexing a bytes object   *)
(* past its end raises IndexError and leaves the function                  *)
RECURSIVE SPIDiffBytes(_, _, _, _)
SPIDiffBytes(actual_txn, expected_txn, transaction_idx, n) ==
    IF n = 0 THEN [raised |-> "none", match |-> TRUE, log |-> <<>>]
    ELSE LET before == SPIDiffBytes(actual_txn, expected_txn, transaction_idx, n - 1)
         IN  IF before.raised # "none" THEN before
             ELSE IF n > Len(actual_txn.mosi_bytes) \/ n > Len(expected_txn.mosi_bytes)
             THEN [before EXCEPT !.raised = "IndexError"]
             ELSE LET mosi_differs == actual_txn.mosi_bytes[n] # expected_txn.mosi_bytes[n]
                      mosi_err == IF mosi_differs
                                  THEN <<PrnErr("MOSI byte",
                                                ByteError(transaction_idx, n - 1,
                                                          expected_txn.mosi_bytes[n],
                                                          actual_txn.mosi_bytes[n]))>>
                                  ELSE <<>>
                  IN  IF n > Len(actual_txn.miso_bytes) \/ n > Len(expected_txn.miso_bytes)
                      THEN [raised |-> "IndexError",
                            match |-> before.match /\ ~mosi_differs,
                            log |-> before.log \o mosi_err]
                      ELSE LET miso_differs ==
                                   actual_txn.miso_bytes[n] # expected_txn.miso_bytes[n]
                               miso_err == IF miso_differs
                                           THEN <<PrnErr("miso byte",
                                                         ByteError(transaction_idx, n - 1,
                                                                   expected_txn.miso_bytes[n],
                                                                   actual_txn.miso_bytes[n]))>>
                                           ELSE <<>>
                           IN  [raised |-> "none",
                                match |-> before.match /\ ~mosi_differs /\ ~miso_differs,
                                log |-> before.log \o mosi_err \o miso_err]

(* one round without the comparison of the mosi lengths *)
SPIDiffTransaction_NoLengthCheck(actual_txn, expected_txn, transaction_idx) ==
    SPIDiffBytes(actual_txn, expected_txn, transaction_idx, Len(actual_txn.mosi_bytes))

(* one round of the loop over the transactions *)
SPIDiffTransaction(actual_txn, expected_txn, transaction_idx) ==
    IF Len(actual_txn.mosi_bytes) # Len(expected_txn.mosi_bytes)
    THEN [raised |-> "none", match |-> FALSE,
          log |-> <<PrnErr("Transaction: expected length",
                           [transaction |-> transaction_idx,
                            expected |-> Len(expected_txn.mosi_bytes),
                            actual |-> Len(actual_txn.mosi_bytes)])>>]
    ELSE SPIDiffBytes(actual_txn, expected_txn, transaction_idx, Len(actual_txn.mosi_bytes))

RECURSIVE SPIDiffLoop(_, _, _)
SPIDiffLoop(actual_txns, expected_txns, n) ==
    IF n = 0 THEN [raised |-> "none", match |-> TRUE, log |-> <<>>]
    ELSE LET before == SPIDiffLoop(actual_txns, expected_txns, n - 1)
         IN  IF before.raised # "none" THEN before
             ELSE LET this == SPIDiffTransaction(actual_txns[n], expected_txns[n], n - 1)
                  IN  [raised |-> this.raised,
                       match |-> before.match /\ this.match,
                       log |-> before.log \o this.log]

(* pretty_diff_spi_data comparing the common prefix before the lengths *)
PrettyDiffSPIData_CompareFirst(expected_txns, actual_txns) ==
    LET saw  == IF Len(actual_txns) > 0
                THEN PrnInf("Saw on the SPI bus", actual_txns)
                ELSE PrnInf("Saw nothing the SPI bus.", <<>>)
        diff == SPIDiffLoop(actual_txns, expected_txns, ZipLen(actual_txns, expected_txns))
    IN  IF diff.raised # "none"
        THEN [raised |-> diff.raised, match |-> FALSE, log |-> <<saw>> \o diff.log]
        ELSE IF Len(actual_txns) # Len(expected_txns)
        THEN [raised |-> "none", match |-> FALSE,
              log |-> <<saw>> \o diff.log
                         \o <<PrnErr("Expected transactions but saw",
                                     [expected |-> Len(expected_txns),
                                      actual |-> Len(actual_txns)])>>]
        ELSE [raised |-> "none", match |-> diff.match,
              log |-> <<saw>> \o diff.log
                         \o (IF ~diff.match THEN <<PrnInf("We expected", expected_txns)>>
                             ELSE <<>>)]

(* pretty_diff_spi_data: the verdict and the messages logged, or the       *)
(* exception that left it; a different number of transactions returns at   *)
(* once                                                                    *)
PrettyDiffSPIData(expected_txns, actual_txns) ==
    LET saw == IF Len(actual_txns) > 0
               THEN PrnInf("Saw on the SPI bus", actual_txns)
               ELSE PrnInf("Saw nothing the SPI bus.", <<>>)
    IN  IF Len(actual_txns) # Len(expected_txns)
        THEN [raised |-> "none", match |-> FALSE,
              log |-> <<saw, PrnErr("Expected transactions but saw",
                                    [expected |-> Len(expected_txns),
                                     actual |-> Len(actual_txns)])>>]
        ELSE LET diff == SPIDiffLoop(actual_txns, expected_txns,
                                     ZipLen(actual_txns, expected_txns))
                 tail == IF ~diff.match THEN <<PrnInf("We expected", expected_txns)>>
                         ELSE <<>>
             IN  IF diff.raised # "none"
                 THEN [raised |-> diff.raised, match |-> FALSE, log |-> <<saw>> \o diff.log]
                 ELSE [raised |-> "none", match |-> diff.match,
                       log |-> <<saw>> \o diff.log \o tail]

(* SEQUENCES of the I2C basic test *)
SEQUENCES ==
    ("correct_addr_only" :>
        <<I2CStart, I2CWriteToAddr(160), I2CAck, I2CStop>>)
    @@ ("incorrect_addr_only_write" :>
        <<I2CStart, I2CWriteToAddr(32), I2CNack, I2CStop>>)
    @@ ("incorrect_addr_only_read" :>
        <<I2CStart, I2CReadFromAddr(33), I2CNack, I2CStop>>)
    @@ ("write_2_to_0x1" :>
        <<I2CStart, I2CWriteToAddr(160), I2CAck, I2CDataByte(0), I2CAck,
          I2CDataByte(1), I2CAck, I2CDataByte(2), I2CAck, I2CStop>>)
    @@ ("write_3_to_0x1" :>
        <<I2CStart, I2CWriteToAddr(160), I2CAck, I2CDataByte(0), I2CAck,
          I2CDataByte(1), I2CAck, I2CDataByte(3), I2CAck, I2CStop>>)
    @@ ("read_2_from_0x1" :>
        <<I2CStart, I2CWriteToAddr(160), I2CAck, I2CDataByte(0), I2CAck,
          I2CDataByte(1), I2CAck, I2CRepeatedStart, I2CReadFromAddr(161),
          I2CAck, I2CDataByte(2), I2CNack, I2CStop>>)
    @@ ("read_3_from_0x1" :>
        <<I2CStart, I2CWriteToAddr(160), I2CAck, I2CDataByte(0), I2CAck,
          I2CDataByte(1), I2CAck, I2CRepeatedStart, I2CReadFromAddr(161),
          I2CAck, I2CDataByte(3), I2CNack, I2CStop>>)

(* the loop of _callback_verify_sequence over enumerate(zip(...)) *)
RECURSIVE I2CBasicDiffLoop(_, _, _)
I2CBasicDiffLoop(expected_items, recorded_data, n) ==
    IF n = 0 THEN [fail |-> FALSE, log |-> <<>>]
    ELSE LET before == I2CBasicDiffLoop(expected_items, recorded_data, n - 1)
         IN  IF I2CNe(expected_items[n], recorded_data[n])
             THEN [fail |-> TRUE,
                   log |-> Append(before.log,
                              PrnInf("Data item at index",
                                     DataItemError(n - 1, expected_items[n], recorded_data[n])))]
             ELSE before

(* _callback_verify_sequence after get_result: the verdict, the messages   *)
(* and the reply to the device                                             *)
I2CBasicVerify(value, recorded_data) ==
    LET saw  == IF Len(recorded_data) > 0
                THEN PrnInf("Saw on the I2C bus", JoinStr(recorded_data))
                ELSE PrnInf("Saw nothing the I2C bus.", <<>>)
        diff == IF Len(SEQUENCES[value]) # Len(recorded_data)
                THEN [fail |-> TRUE,
                      log |-> <<PrnInf("Expected length differs from actual!", <<>>)>>]
                ELSE I2CBasicDiffLoop(SEQUENCES[value], recorded_data,
                                      ZipLen(SEQUENCES[value], recorded_data))
    IN  IF ~diff.fail
        THEN [fail |-> FALSE,
              log |-> <<saw>> \o diff.log \o <<PrnInf("PASS", <<>>)>>,
              reply |-> <<"verify_sequence", "complete">>]
        ELSE [fail |-> TRUE,
              log |-> <<saw>> \o diff.log
                         \o <<PrnInf("We expected", JoinStr(SEQUENCES[value])),
                              PrnInf("FAIL", <<>>)>>,
              reply |-> <<"verify_sequence", "failed">>]

(* the lists the model hands to the two diff functions *)
I2CVerifyEvents ==
    {I2CWriteToAddr(1), I2CReadFromAddr(1), I2CDataByte(1), I2CDataByte(2),
     I2CAck, I2CStop}

I2CVerifyLists ==
    SeqsUpTo(I2CVerifyEvents, MaxVerifyLen)
        \cup {<<I2CStart, I2CAck, I2CStop>>, <<I2CStart, I2CNack, I2CStop>>,
              <<I2CRepeatedStart, I2CAck, I2CStop>>,
              <<I2CStart, I2CReadFromAddr(1), I2CAck>>}
        \cup {SEQUENCES[value] : value \in DOMAIN SEQUENCES}

(* the transactions SPITransaction constructs from these mosi and miso *)
SPIVerifyTransactions ==
    LET made == {SPITransaction(io[1], io[2]) :
                    io \in {<<<<>>, <<>>>>, <<<<1>>, <<1>>>>, <<<<1>>, <<2>>>>,
                            <<<<2>>, <<2>>>>, <<<<1>>, <<>>>>,
                            <<<<1, 2>>, <<1, 2>>>>, <<<<1, 3>>, <<1, 2>>>>}}
    IN  {Txn(m) : m \in {x \in made : x.raised = "none"}}

SPIVerifyLists == SeqsUpTo(SPIVerifyTransactions, MaxVerifyLen)

(* a call of pretty_diff_i2c_data(logger, expected, actual) *)
PrettyDiffI2CDataCall ==
    /\ pc = "idle"
    /\ \E expected_items \in I2CVerifyLists, actual_items \in I2CVerifyLists :
          LET diff == PrettyDiffI2CData(expected_items, actual_items)
          IN  /\ match' = diff.match
              /\ logger' = logger \o diff.log
              /\ expected' = expected_items
              /\ actual' = actual_items
    /\ verifier' = "pretty_diff_i2c_data"
    /\ pc' = "verified"
    /\ UNCHANGED <<procVars, exc, line_idx, result, i2cVars, spiVars, sent_kv, sesVars,
                   treVars, cbVars>>

(* a call of pretty_diff_spi_data(logger, expected, actual) *)
PrettyDiffSPIDataCall ==
    /\ pc = "idle"
    /\ \E expected_txns \in SPIVerifyLists, actual_txns \in SPIVerifyLists :
          LET diff == PrettyDiffSPIData(expected_txns, actual_txns)
          IN  /\ logger' = logger \o diff.log
              /\ expected' = expected_txns
              /\ actual' = actual_txns
              /\ IF diff.raised # "none"
                 THEN pc' = "raised" /\ exc' = diff.raised /\ match' = match
                 ELSE pc' = "verified" /\ exc' = exc /\ match' = diff.match
    /\ verifier' = "pretty_diff_spi_data"
    /\ UNCHANGED <<procVars, line_idx, result, i2cVars, spiVars, sent_kv, sesVars,
                   treVars, cbVars>>

(* _callback_verify_sequence, once its get_result has returned *)
I2CBasicVerifySequence(value) ==
    /\ pc = "returned"
    /\ LET check == I2CBasicVerify(value, result)
       IN  /\ match' = ~check.fail
           /\ logger' = logger \o check.log
           /\ sent_kv' = Append(sent_kv, check.reply)
    /\ expected' = SEQUENCES[value]
    /\ actual' = result
    /\ verifier' = "verify_sequence"
    /\ pc' = "verified"
    /\ UNCHANGED <<procVars, exc, line_idx, result, i2cVars, spiVars, sesVars, treVars, cbVars>>

InitVerifier == InitProc /\ InitCtl /\ InitI2C /\ InitSPI /\ InitVer /\ InitSes /\ InitTre /\ InitCb

NextVerifier ==
    \/ I2CRecord
    \/ \E outcome \in ProcessOutcomes : I2CGetResultOutput(outcome)
    \/ I2CGetResultLine
    \/ I2CGetResultReturn
    \/ \E value \in DOMAIN SEQUENCES : I2CBasicVerifySequence(value)
    \/ PrettyDiffI2CDataCall
    \/ PrettyDiffSPIDataCall

SpecVerifier == InitVerifier /\ [][NextVerifier]_vars

(***************************************************************************)
(* A recording session: one recorder object and the operations its owner   *)
(* calls on it, in any order, one after the other.                         *)
(***************************************************************************)
MaxLaunches == 2

(* "\n".join(lines) *)
RECURSIVE JoinNewline(_)
JoinNewline(lines) ==
    IF lines = <<>> THEN <<>>
    ELSE IF Len(lines) = 1 THEN lines[1]
    ELSE lines[1] \o <<"\n">> \o JoinNewline(Tail(lines))

(* text.split("\n") keeping only the text before the first newline *)
SplitOnNewline_FirstLineOnly(text) ==
    LET breaks == {i \in 1..Len(text) : text[i] = "\n"}
    IN  IF breaks = {} THEN <<text>>
        ELSE LET first == CHOOSE i \in breaks : \A o \in breaks : i <= o
             IN  <<SubSeq(text, 1, first - 1)>>

(* text.split("\n") *)
RECURSIVE SplitOnNewline(_)
SplitOnNewline(text) ==
    LET breaks == {i \in 1..Len(text) : text[i] = "\n"}
    IN  IF breaks = {} THEN <<text>>
        ELSE LET first == CHOOSE i \in breaks : \A o \in breaks : i <= o
             IN  <<SubSeq(text, 1, first - 1)>>
                    \o SplitOnNewline(SubSeq(text, first + 1, Len(text)))

RecorderClasses == {"i2c", "spi", "analyzer"}

(* exit statuses of a process that ended by itself with a failure *)
FailureStatuses == {1, 3}

NoStatus == <<>>
Status(code) == <<code>>

(* what the process writes: csv output is "header lines, one sample per line" *)
CsvHeader ==
    << <<";">>, <<";">>, <<";">>, <<";">>, <<"D", "0">> >>

(* the text of a capture: every line, the last sample line too, ends with a *)
(* newline                                                                 *)
CsvText(samples) == JoinNewline(CsvHeader \o samples \o <<EmptyLine>>)

MaxSamples == 8

(* the line of a low and of a high sample *)
LowLine  == <<"0">>
HighLine == <<"1">>

SampleLines == {LowLine, HighLine}

(* the captures of up to MaxSamples samples *)
AnalyzerCaptures == SeqsUpTo(SampleLines, MaxSamples)

AnalyzerTexts == {CsvText(samples) : samples \in AnalyzerCaptures}

SessionTexts(class) ==
    CASE class = "i2c" -> {<<>>, JoinNewline(CaptureCorrectAddrOnly)}
      [] class = "spi" -> {<<>>, JoinNewline(CaptureTwoByteTransfer)}
      [] class = "analyzer" ->
            {CsvText(<<LowLine, HighLine, HighLine, LowLine, HighLine>>),
             CsvText(<<HighLine, HighLine>>)}

(* no operation is running: the owner may call the next one *)
BetweenCalls == pc \in {"idle", "recording", "returned", "raised", "torn_down"}

(* the handle is replaced: the process it held is held by nobody *)
Orphaned(process) == IF process = None THEN orphans ELSE Append(orphans, process)

(* _start_sigrok: Popen and the assignment of the handle, or the exception *)
(* of the search for the logic analyzer or of Popen, before the assignment *)
StartSigrok(launch) ==
    IF launch = "failed"
    THEN /\ pc' = "raised"
         /\ exc' = "RuntimeError"
         /\ exc_args' = [message |-> "Could not find logic analyzer USB device"]
         /\ UNCHANGED <<sigrok_process, returncode, orphans, launches, stdout_text>>
    ELSE /\ orphans' = Orphaned(sigrok_process)
         /\ sigrok_process' = "running"
         /\ returncode' = NoStatus
         /\ launches' = launches + 1
         /\ \E text \in SessionTexts(recorder) : stdout_text' = text
         /\ pc' = "recording"
         /\ exc' = "none"
         /\ exc_args' = <<>>

(* record() of SigrokI2CRecorder and of SigrokSPIRecorder *)
SessionRecord(launch) ==
    /\ BetweenCalls
    /\ recorder \in {"i2c", "spi"}
    /\ launches < MaxLaunches
    /\ op' = "record"
    /\ StartSigrok(launch)
    /\ IF recorder = "spi"
       THEN \E cs_pin \in {None, "D0"} : has_cs_pin' = (cs_pin # None)
       ELSE has_cs_pin' = has_cs_pin
    /\ result' = None
    /\ UNCHANGED <<proc_stdout, line_idx, logger, i2cVars, spiVars, verVars, recorder,
                   treVars, cbVars>>

(* _get_sigrok_output on the handle as it is: what becomes of the process, *)
(* of returncode, and the exception raised                                 *)
Communicate(process, outcome, status) ==
    CASE process = None ->
            [process |-> None, returncode |-> returncode, raised |-> "AttributeError",
             args |-> [message |-> "'NoneType' object has no attribute 'communicate'"]]
      [] process = "running" ->
            LET got == GetSigrokOutput(outcome)
            IN  [process |-> got.process,
                 returncode |-> CASE outcome = "timeout" -> NoStatus
                                  [] outcome = "exit_nonzero" -> Status(status)
                                  [] outcome = "exit_0" -> Status(0),
                 raised |-> got.raised,
                 args |-> CASE outcome = "timeout" -> [timeout |-> 5]
                            [] outcome = "exit_nonzero" -> [message |-> "Sigrok failed!"]
                            [] outcome = "exit_0" -> <<>>]
      [] process = "exited_0" ->
            [process |-> process, returncode |-> Status(0), raised |-> "none", args |-> <<>>]
      [] process = "exited_nonzero" ->
            [process |-> process, returncode |-> returncode, raised |-> "RuntimeError",
             args |-> [message |-> "Sigrok failed!"]]
      [] process \in {"killed", "terminated"} ->
            [process |-> process,
             returncode |-> IF process = "killed" THEN Status(-9) ELSE Status(-15),
             raised |-> "RuntimeError",
             args |-> [message |-> "Sigrok failed!"]]

(* SigrokI2CRecorder.get_result without its try/except *)
SessionI2CGetResult_NoCatch(outcome, status) ==
    /\ BetweenCalls
    /\ recorder = "i2c"
    /\ op' = "get_result"
    /\ LET got == Communicate(sigrok_process, outcome, status)
       IN  /\ sigrok_process' = got.process
           /\ returncode' = got.returncode
           /\ IF got.raised # "none"
              THEN /\ pc' = "raised"
                   /\ exc' = got.raised
                   /\ exc_args' = got.args
                   /\ UNCHANGED <<proc_stdout, line_idx, i2c_transaction>>
              ELSE /\ pc' = "loop"
                   /\ exc' = "none"
                   /\ exc_args' = <<>>
                   /\ proc_stdout' = SplitOnNewline(stdout_text)
                   /\ line_idx' = 0
                   /\ i2c_transaction' = <<>>
    /\ result' = None
    /\ UNCHANGED <<has_cs_pin, logger, spiVars, verVars,
                   recorder, launches, orphans, stdout_text, treVars, cbVars>>

(* SigrokI2CRecorder.get_result up to the parse loop, on any handle: a      *)
(* timeout is answered with [], every other exception leaves get_result    *)
SessionI2CGetResult(outcome, status) ==
    /\ BetweenCalls
    /\ recorder = "i2c"
    /\ op' = "get_result"
    /\ LET got == Communicate(sigrok_process, outcome, status)
       IN  /\ sigrok_process' = got.process
           /\ returncode' = got.returncode
           /\ IF got.raised = "TimeoutExpired"
              THEN /\ pc' = "returned"
                   /\ result' = <<>>
                   /\ exc' = "none"
                   /\ exc_args' = <<>>
                   /\ UNCHANGED <<proc_stdout, line_idx, i2c_transaction>>
              ELSE IF got.raised # "none"
              THEN /\ pc' = "raised"
                   /\ result' = None
                   /\ exc' = got.raised
                   /\ exc_args' = got.args
                   /\ UNCHANGED <<proc_stdout, line_idx, i2c_transaction>>
              ELSE /\ pc' = "loop"
                   /\ result' = None
                   /\ exc' = "none"
                   /\ exc_args' = <<>>
                   /\ proc_stdout' = SplitOnNewline(stdout_text)
                   /\ line_idx' = 0
                   /\ i2c_transaction' = <<>>
    /\ UNCHANGED <<has_cs_pin, logger, spiVars, verVars,
                   recorder, launches, orphans, stdout_text, treVars, cbVars>>

(* SigrokSPIRecorder.get_result with the try/except of the I2C recorder *)
SessionSPIGetResult_CatchTimeout(outcome, status) ==
    /\ BetweenCalls
    /\ recorder = "spi"
    /\ op' = "get_result"
    /\ LET got == Communicate(sigrok_process, outcome, status)
       IN  /\ sigrok_process' = got.process
           /\ returncode' = got.returncode
           /\ IF got.raised = "TimeoutExpired"
              THEN /\ pc' = "returned"
                   /\ result' = <<>>
                   /\ exc' = "none"
                   /\ exc_args' = <<>>
                   /\ UNCHANGED <<proc_stdout, line_idx, spiVars>>
              ELSE IF got.raised # "none"
              THEN /\ pc' = "raised"
                   /\ result' = None
                   /\ exc' = got.raised
                   /\ exc_args' = got.args
                   /\ UNCHANGED <<proc_stdout, line_idx, spiVars>>
              ELSE /\ pc' = "loop"
                   /\ result' = None
                   /\ exc' = "none"
                   /\ exc_args' = <<>>
                   /\ proc_stdout' = SplitOnNewline(stdout_text)
                   /\ line_idx' = 0
                   /\ spi_data' = <<>>
                   /\ previous_line_data' = NoList
                   /\ mosi_bytes' = <<>>
                   /\ miso_bytes' = <<>>
                   /\ next_line_is_miso' = TRUE
    /\ UNCHANGED <<has_cs_pin, logger, i2cVars, verVars,
                   recorder, launches, orphans, stdout_text, treVars, cbVars>>

(* SigrokSPIRecorder.get_result up to the parse loop, on any handle *)
SessionSPIGetResult(outcome, status) ==
    /\ BetweenCalls
    /\ recorder = "spi"
    /\ op' = "get_result"
    /\ LET got == Communicate(sigrok_process, outcome, status)
       IN  /\ sigrok_process' = got.process
           /\ returncode' = got.returncode
           /\ IF got.raised # "none"
              THEN /\ pc' = "raised"
                   /\ exc' = got.raised
                   /\ exc_args' = got.args
                   /\ UNCHANGED <<proc_stdout, line_idx, spiVars>>
              ELSE /\ pc' = "loop"
                   /\ exc' = "none"
                   /\ exc_args' = <<>>
                   /\ proc_stdout' = SplitOnNewline(stdout_text)
                   /\ line_idx' = 0
                   /\ spi_data' = <<>>
                   /\ previous_line_data' = NoList
                   /\ mosi_bytes' = <<>>
                   /\ miso_bytes' = <<>>
                   /\ next_line_is_miso' = TRUE
    /\ result' = None
    /\ UNCHANGED <<has_cs_pin, logger, i2cVars, verVars,
                   recorder, launches, orphans, stdout_text, treVars, cbVars>>

(* Popen.poll() of a process: None while it runs, else its status; a       *)
(* process that was sent a signal may not have ended yet                   *)
PollOutcomes(process) ==
    CASE process = "running"        -> {NoStatus, Status(0)} \cup {Status(s) : s \in FailureStatuses}
      [] process = "exited_0"       -> {Status(0)}
      [] process = "exited_nonzero" -> {returncode}
      [] process = "killed"         -> {NoStatus, Status(-9)}
      [] process = "terminated"     -> {NoStatus, Status(-15)}

(* the process after poll() returned polled, and after terminate() if it   *)
(* returned None                                                           *)
AfterTeardown(process, polled) ==
    IF polled = NoStatus
    THEN (IF process = "running" THEN "terminated" ELSE process)
    ELSE IF process = "running"
         THEN (IF polled = Status(0) THEN "exited_0" ELSE "exited_nonzero")
         ELSE process

(* teardown that also forgets the process *)
SessionTeardown_ClearsHandle ==
    /\ BetweenCalls
    /\ op' = "teardown"
    /\ sigrok_process' = None
    /\ returncode' = NoStatus
    /\ pc' = "torn_down"
    /\ exc' = "none"
    /\ exc_args' = <<>>
    /\ result' = None
    /\ UNCHANGED <<proc_stdout, has_cs_pin, line_idx, logger, i2cVars, spiVars, verVars,
                   recorder, launches, orphans, stdout_text, treVars, cbVars>>

(* teardown with the test of the handle left out *)
SessionTeardown_NoNoneCheck ==
    /\ BetweenCalls
    /\ op' = "teardown"
    /\ IF sigrok_process = None
       THEN /\ pc' = "raised"
            /\ exc' = "AttributeError"
            /\ exc_args' = [message |-> "'NoneType' object has no attribute 'poll'"]
            /\ UNCHANGED <<sigrok_process, returncode>>
       ELSE /\ \E polled \in PollOutcomes(sigrok_process) :
                  /\ sigrok_process' = AfterTeardown(sigrok_process, polled)
                  /\ returncode' = IF polled = NoStatus THEN returncode ELSE polled
            /\ pc' = "torn_down"
            /\ exc' = "none"
            /\ exc_args' = <<>>
    /\ result' = None
    /\ UNCHANGED <<proc_stdout, has_cs_pin, line_idx, logger, i2cVars, spiVars, verVars,
                   recorder, launches, orphans, stdout_text, treVars, cbVars>>

(* teardown() of SigrokRecorderBase and of its subclasses *)
SessionTeardown ==
    /\ BetweenCalls
    /\ IF sigrok_process = None
       THEN UNCHANGED <<sigrok_process, returncode>>
       ELSE \E polled \in PollOutcomes(sigrok_process) :
               /\ sigrok_process' = AfterTeardown(sigrok_process, polled)
               /\ returncode' = IF polled = NoStatus THEN returncode ELSE polled
    /\ op' = "teardown"
    /\ pc' = "torn_down"
    /\ exc' = "none"
    /\ exc_args' = <<>>
    /\ result' = None
    /\ UNCHANGED <<proc_stdout, has_cs_pin, line_idx, logger, i2cVars, spiVars, verVars,
                   recorder, launches, orphans, stdout_text, treVars, cbVars>>

(* a process the handle no longer holds ends by itself *)
OrphanExits(i) ==
    /\ i \in 1..Len(orphans)
    /\ orphans[i] = "running"
    /\ orphans' = [orphans EXCEPT ![i] = "exited_0"]
    /\ UNCHANGED <<procVars, ctlVars, i2cVars, spiVars, verVars,
                   recorder, op, launches, returncode, exc_args, stdout_text,
                   treVars, cbVars>>

(* RECORD_TIME = 0.1 s, as a fraction *)
RECORD_TIME == [num |-> 1, den |-> 10]

(* the computation with the edge test made from the second sample on *)
MeasureCompute_EdgeAtSecondSample(lines) ==
    LET sigrok_output   == SubSeq(lines, 6, Len(lines))
        channel_samples == [i \in 1..Len(sigrok_output) |-> sigrok_output[i] = <<"1">>]
        num_rising_edges ==
            Cardinality({i \in 1..Len(channel_samples) :
                            /\ i - 1 > 0
                            /\ ~channel_samples[i - 1]
                            /\ channel_samples[i]})
        num_high_samples ==
            Cardinality({i \in 1..Len(channel_samples) : channel_samples[i]})
    IN  IF Len(channel_samples) = 0
        THEN [raised |-> "ZeroDivisionError", value |-> None]
        ELSE [raised |-> "none",
              value |-> [frequency  |-> [num |-> num_rising_edges * RECORD_TIME.den,
                                        den |-> RECORD_TIME.num],
                         duty_cycle |-> [num |-> num_high_samples,
                                         den |-> Len(channel_samples)]]]

(* the computation with the header lines taken for samples *)
MeasureCompute_HeaderAsSamples(lines) ==
    LET sigrok_output   == SubSeq(lines, 1, Len(lines))
        channel_samples == [i \in 1..Len(sigrok_output) |-> sigrok_output[i] = <<"1">>]
        num_rising_edges ==
            Cardinality({i \in 1..Len(channel_samples) :
                            /\ i - 1 > 1
                            /\ ~channel_samples[i - 1]
                            /\ channel_samples[i]})
        num_high_samples ==
            Cardinality({i \in 1..Len(channel_samples) : channel_samples[i]})
    IN  IF Len(channel_samples) = 0
        THEN [raised |-> "ZeroDivisionError", value |-> None]
        ELSE [raised |-> "none",
              value |-> [frequency  |-> [num |-> num_rising_edges * RECORD_TIME.den,
                                        den |-> RECORD_TIME.num],
                         duty_cycle |-> [num |-> num_high_samples,
                                         den |-> Len(channel_samples)]]]

(* the computation of measure_signal on the lines of the csv output: the   *)
(* samples follow the header; a rising edge is looked for from the third   *)
(* sample on; the duty cycle divides by the number of samples              *)
MeasureCompute(lines) ==
    LET sigrok_output   == SubSeq(lines, 6, Len(lines))
        channel_samples == [i \in 1..Len(sigrok_output) |-> sigrok_output[i] = <<"1">>]
        num_rising_edges ==
            Cardinality({i \in 1..Len(channel_samples) :
                            /\ i - 1 > 1
                            /\ ~channel_samples[i - 1]
                            /\ channel_samples[i]})
        num_high_samples ==
            Cardinality({i \in 1..Len(channel_samples) : channel_samples[i]})
    IN  IF Len(channel_samples) = 0
        THEN [raised |-> "ZeroDivisionError", value |-> None]
        ELSE [raised |-> "none",
              value |-> [frequency  |-> [num |-> num_rising_edges * RECORD_TIME.den,
                                        den |-> RECORD_TIME.num],
                         duty_cycle |-> [num |-> num_high_samples,
                                         den |-> Len(channel_samples)]]]

(* SigrokSignalAnalyzer.measure_signal: launch, wait for the output,       *)
(* compute; texts is what the process may write                            *)
MeasureSignalOn(texts, launch, outcome, status) ==
    /\ BetweenCalls
    /\ recorder = "analyzer"
    /\ launches < MaxLaunches
    /\ op' = "measure_signal"
    /\ IF launch = "failed"
       THEN /\ pc' = "raised"
            /\ exc' = "RuntimeError"
            /\ exc_args' = [message |-> "Could not find logic analyzer USB device"]
            /\ result' = None
            /\ UNCHANGED <<sigrok_process, returncode, orphans, launches,
                           stdout_text, proc_stdout>>
       ELSE \E text \in texts :
               LET got == Communicate("running", outcome, status)
                   out == MeasureCompute(SplitOnNewline(text))
               IN  /\ orphans' = Orphaned(sigrok_process)
                   /\ launches' = launches + 1
                   /\ stdout_text' = text
                   /\ sigrok_process' = got.process
                   /\ returncode' = got.returncode
                   /\ IF got.raised # "none"
                      THEN /\ pc' = "raised"
                           /\ exc' = got.raised
                           /\ exc_args' = got.args
                           /\ result' = None
                           /\ proc_stdout' = proc_stdout
                      ELSE /\ proc_stdout' = SplitOnNewline(text)
                           /\ exc_args' = <<>>
                           /\ IF out.raised # "none"
                              THEN pc' = "raised" /\ exc' = out.raised /\ result' = None
                              ELSE pc' = "returned" /\ exc' = "none" /\ result' = out.value
    /\ UNCHANGED <<has_cs_pin, line_idx, logger, i2cVars, spiVars, verVars, recorder,
                   treVars, cbVars>>

MeasureSignal(launch, outcome, status) ==
    MeasureSignalOn(SessionTexts(recorder), launch, outcome, status)

InitSession ==
    /\ InitProc /\ InitCtl /\ InitI2C /\ InitSPI /\ InitVer /\ InitTre /\ InitCb
    /\ recorder \in RecorderClasses
    /\ op = None
    /\ launches = 0
    /\ orphans = <<>>
    /\ returncode = NoStatus
    /\ exc_args = <<>>
    /\ stdout_text = <<>>

NextSession ==
    \/ \E launch \in {"ok", "failed"} : SessionRecord(launch)
    \/ \E outcome \in ProcessOutcomes, status \in FailureStatuses :
          SessionI2CGetResult(outcome, status)
    \/ recorder = "i2c" /\ I2CGetResultLine
    \/ recorder = "i2c" /\ I2CGetResultReturn
    \/ \E outcome \in ProcessOutcomes, status \in FailureStatuses :
          SessionSPIGetResult(outcome, status)
    \/ recorder = "spi" /\ SPIGetResultLineCS
    \/ recorder = "spi" /\ SPIGetResultReturnCS
    \/ recorder = "spi" /\ SPIGetResultLineNoCS
    \/ recorder = "spi" /\ SPIGetResultReturnNoCS
    \/ \E launch \in {"ok", "failed"}, outcome \in ProcessOutcomes,
          status \in FailureStatuses : MeasureSignal(launch, outcome, status)
    \/ SessionTeardown
    \/ \E i \in 1..Len(orphans) : OrphanExits(i)

SpecSession == InitSession /\ [][NextSession]_vars

(***************************************************************************)
(* SigrokSignalAnalyzer on every capture of up to MaxSamples samples: the  *)
(* signal is stable, so every measurement of a run sees the same capture   *)
(***************************************************************************)
InitAnalyzer ==
    /\ InitProc /\ InitCtl /\ InitI2C /\ InitSPI /\ InitVer /\ InitTre /\ InitCb
    /\ recorder = "analyzer"
    /\ op = None
    /\ launches = 0
    /\ orphans = <<>>
    /\ returncode = NoStatus
    /\ exc_args = <<>>
    /\ stdout_text \in AnalyzerTexts

NextAnalyzer ==
    \/ \E launch \in {"ok", "failed"}, outcome \in ProcessOutcomes,
          status \in FailureStatuses :
             MeasureSignalOn({stdout_text}, launch, outcome, status)
    \/ SessionTeardown

SpecAnalyzer == InitAnalyzer /\ [][NextAnalyzer]_vars

(***************************************************************************)
(* The I2C event classes compared with ==                                  *)
(***************************************************************************)
MaxEventValue == 2

(* the events of every class, with the numbers 0..MaxEventValue *)
I2CEvents ==
    {I2CStart, I2CRepeatedStart, I2CAck, I2CNack, I2CStop}
        \cup {I2CWriteToAddr(a)  : a \in 0..MaxEventValue}
        \cup {I2CReadFromAddr(a) : a \in 0..MaxEventValue}
        \cup {I2CDataByte(d)     : d \in 0..MaxEventValue}

(* self == other, for two events *)
I2CEventsCompared ==
    /\ pc \in {"idle", "verified"}
    /\ \E self \in I2CEvents, other \in I2CEvents :
          /\ expected' = <<self>>
          /\ actual' = <<other>>
          /\ match' = I2CEq(self, other)
    /\ verifier' = "__eq__"
    /\ pc' = "verified"
    /\ UNCHANGED <<procVars, exc, line_idx, result, logger, i2cVars, spiVars, sent_kv,
                   sesVars, treVars, cbVars>>

InitI2CEvents == InitProc /\ InitCtl /\ InitI2C /\ InitSPI /\ InitVer /\ InitSes /\ InitTre /\ InitCb

NextI2CEvents == I2CEventsCompared

SpecI2CEvents == InitI2CEvents /\ [][NextI2CEvents]_vars

(***************************************************************************)
(* Test-Result-Evaluator: _parse_test_suite on the output of a test suite. *)
(* The output is the sequence of the markers it holds; every marker is     *)
(* followed by the rest of its log line.                                   *)
(***************************************************************************)
MaxBodyMarkers == 4

PASSED  == "PASSED"
FAILED  == "FAILED"
SKIPPED == "SKIPPED"
PRIOR_TEST_CASE_CRASHED == "PRIOR_TEST_CASE_CRASHED"

(* {{__testcase_name;name}} *)
TestcaseName(name)  == [marker |-> "__testcase_name", name |-> name]
(* {{__testcase_start;name}} *)
TestcaseStart(name) == [marker |-> "__testcase_start", name |-> name]
(* {{__testcase_finish;name;passed;failed}} with one digit each *)
TestcaseFinish(name, passed) ==
    [marker |-> "__testcase_finish", name |-> name, passed |-> passed]
(* <greentea test suite>:156::SKIP *)
SkipMarker == [marker |-> "SKIP"]
(* teardown() finished *)
TeardownFinished == [marker |-> "teardown() finished"]

(* names of test cases: one plain, one with characters that are operators  *)
(* of a regular expression, as the names of the UART test have             *)
TestCaseNameSet == {"A", "B (1)"}

(* the text a test case name matches when it is read as a regular          *)
(* expression: the parentheses form a group and match nothing themselves   *)
NameAsPattern(name) == IF name = "B (1)" THEN "B 1" ELSE name

(* re.findall(GREENTEA_TESTCASE_NAME_RE, test_suite_output) *)
RECURSIVE FindTestCaseNames(_)
FindTestCaseNames(output) ==
    IF output = <<>> THEN <<>>
    ELSE IF Head(output).marker = "__testcase_name"
         THEN <<Head(output).name>> \o FindTestCaseNames(Tail(output))
         ELSE FindTestCaseNames(Tail(output))

(* list(names): every appearance of a name kept *)
DictFromKeys_KeepAll(names) == names

(* list(dict.fromkeys(names)): every name once, at its first appearance *)
RECURSIVE DictFromKeys(_)
DictFromKeys(names) ==
    IF names = <<>> THEN <<>>
    ELSE LET front == DictFromKeys(SubSeq(names, 1, Len(names) - 1))
             last  == names[Len(names)]
         IN  IF \E i \in 1..Len(front) : front[i] = last
             THEN front
             ELSE Append(front, last)

(* re.findall(GREENTEA_TESTCASE_OUTPUT_RE, output) from marker position    *)
(* from on: the leftmost start marker that has a finish marker after it,   *)
(* up to the first such finish marker, then on after that                  *)
RECURSIVE FindTestCaseRecords(_, _)
FindTestCaseRecords(output, from) ==
    LET starts == {i \in from..Len(output) :
                      /\ output[i].marker = "__testcase_start"
                      /\ \E j \in (i + 1)..Len(output) :
                            output[j].marker = "__testcase_finish"}
    IN  IF starts = {} THEN <<>>
        ELSE LET first == CHOOSE i \in starts : \A o \in starts : i <= o
                 ends  == {j \in (first + 1)..Len(output) :
                              output[j].marker = "__testcase_finish"}
                 last  == CHOOSE j \in ends : \A o \in ends : j <= o
             IN  << [output |-> SubSeq(output, first, last),
                     passed |-> output[last].passed] >>
                    \o FindTestCaseRecords(output, last + 1)

(* re.search(crash_re, output): the leftmost start marker the name, read   *)
(* as a regular expression, matches and that "teardown() finished"         *)
(* follows, up to the first "teardown() finished"; <<>> for None           *)
SearchCrash(crashing_test_name, output) ==
    LET starts == {i \in 1..Len(output) :
                      /\ output[i].marker = "__testcase_start"
                      /\ output[i].name = NameAsPattern(crashing_test_name)
                      /\ \E j \in (i + 1)..Len(output) :
                            output[j] = TeardownFinished}
    IN  IF starts = {} THEN <<>>
        ELSE LET first == CHOOSE i \in starts : \A o \in starts : i <= o
                 ends  == {j \in (first + 1)..Len(output) : output[j] = TeardownFinished}
                 last  == CHOOSE j \in ends : \A o \in ends : j <= o
             IN  <<SubSeq(output, first, last)>>

(* len(re.findall(TEST_SKIPPED_RE, text)) > 0 *)
HasSkipMarker(text) == \E i \in 1..Len(text) : text[i] = SkipMarker

(* the test case records, with the record of a crashed test case added *)
TestCaseRecords(output, test_case_names) ==
    LET test_case_records == FindTestCaseRecords(output, 1)
    IN  IF Len(test_case_records) < Len(test_case_names)
        THEN LET crashing_test_name == test_case_names[Len(test_case_records) + 1]
                 test_case_crash_output == SearchCrash(crashing_test_name, output)
             IN  IF test_case_crash_output # <<>>
                 THEN Append(test_case_records,
                             [output |-> test_case_crash_output[1], passed |-> 0])
                 ELSE test_case_records
        ELSE test_case_records

(* the row the loop adds for the test case at index test_case_idx (from 0) *)
TestCaseRow(test_case_names, test_case_records, test_case_idx) ==
    IF test_case_idx < Len(test_case_records)
    THEN LET record == test_case_records[test_case_idx + 1]
         IN  [testCaseName  |-> test_case_names[test_case_idx + 1],
              testCaseIndex |-> test_case_idx,
              result |-> IF HasSkipMarker(record.output) THEN SKIPPED
                         ELSE IF record.passed = 1 THEN PASSED
                         ELSE FAILED,
              output |-> record.output]
    ELSE [testCaseName  |-> test_case_names[test_case_idx + 1],
          testCaseIndex |-> test_case_idx,
          result |-> PRIOR_TEST_CASE_CRASHED,
          output |-> <<>>]

(* add_test_case_record: INSERT OR REPLACE on the name of the test case *)
AddTestCaseRecord(rows, row) ==
    Append(SelectSeq(rows, LAMBDA r : r.testCaseName # row.testCaseName), row)

RECURSIVE AddTestCaseRows(_, _, _, _)
AddTestCaseRows(rows, test_case_names, test_case_records, n) ==
    IF n = 0 THEN rows
    ELSE AddTestCaseRecord(
            AddTestCaseRows(rows, test_case_names, test_case_records, n - 1),
            TestCaseRow(test_case_names, test_case_records, n - 1))

(* the rows of TestCases after _parse_test_suite *)
ParseTestSuite(rows, test_suite_name, output, test_suite_result) ==
    LET test_case_names == DictFromKeys(FindTestCaseNames(output))
    IN  IF Len(test_case_names) > 0
        THEN AddTestCaseRows(rows, test_case_names,
                             TestCaseRecords(output, test_case_names),
                             Len(test_case_names))
        ELSE AddTestCaseRecord(rows,
                [testCaseName  |-> test_suite_name,
                 testCaseIndex |-> 0,
                 result |-> IF HasSkipMarker(output) THEN SKIPPED ELSE test_suite_result,
                 output |-> output])

(* get_test_details for one target: the names of the test cases, ordered   *)
(* by testCaseIndex                                                        *)
RECURSIVE OrderByIndex(_)
OrderByIndex(rows) ==
    IF rows = {} THEN <<>>
    ELSE LET least == CHOOSE r \in rows : \A o \in rows : r.testCaseIndex <= o.testCaseIndex
         IN  <<least.testCaseName>> \o OrderByIndex(rows \ {least})

GetTestDetails(rows) == OrderByIndex({rows[i] : i \in 1..Len(rows)})

(* the lists of test cases a suite prints: none, one, two, and the list of *)
(* a device that reset and printed it again                                *)
TestCaseLists ==
    { <<>>, <<"A">>, <<"A", "B (1)">>, <<"B (1)", "A">>,
      <<"A", "B (1)", "A", "B (1)">> }

NameMarkers(names) == [i \in 1..Len(names) |-> TestcaseName(names[i])]

BodyMarkers ==
    {TestcaseStart("A"), TestcaseStart("B (1)"),
     TestcaseFinish("A", 1), TestcaseFinish("A", 0), TestcaseFinish("B (1)", 1),
     SkipMarker, TeardownFinished}

TestSuiteOutputs ==
    {NameMarkers(names) \o body :
        names \in TestCaseLists, body \in SeqsUpTo(BodyMarkers, MaxBodyMarkers)}

(* _parse_test_suite(database, mbed_target, test_suite_name, output, result) *)
ParseTestSuiteCall ==
    /\ pc = "idle"
    /\ \E test_suite_result \in {PASSED, FAILED} :
          database' = ParseTestSuite(database, "test-suite", test_suite_output,
                                     test_suite_result)
    /\ pc' = "parsed"
    /\ UNCHANGED <<procVars, exc, line_idx, result, logger, i2cVars, spiVars, verVars,
                   sesVars, test_suite_output, target_graph, target_name,
                   nodes_to_explore, all_children, cbVars>>

(* get_test_details(test_suite_name) *)
GetTestDetailsCall ==
    /\ pc = "parsed"
    /\ result' = GetTestDetails(database)
    /\ pc' = "returned"
    /\ UNCHANGED <<procVars, exc, line_idx, logger, i2cVars, spiVars, verVars, sesVars,
                   treVars, cbVars>>

InitParser ==
    /\ InitProc /\ InitCtl /\ InitI2C /\ InitSPI /\ InitVer /\ InitSes
    /\ test_suite_output \in TestSuiteOutputs
    /\ database = <<>>
    /\ target_graph = {}
    /\ target_name = None
    /\ nodes_to_explore = <<>>
    /\ all_children = {}
    /\ InitCb

NextParser ==
    \/ ParseTestSuiteCall
    \/ GetTestDetailsCall

SpecParser == InitParser /\ [][NextParser]_vars

(***************************************************************************)
(* Test-Result-Evaluator: the inheritance graph of the targets and         *)
(* get_all_target_children.                                                *)
(***************************************************************************)
MaxTargets == 3

(* the targets of targets.json5, numbered in the order of the file *)
Targets == 1..MaxTargets

(* The relations populate_targets_and_drivers can store: a row (parent,    *)
(* child) is inserted when the child is added, and the foreign key on      *)
(* parentTarget refuses a parent that is not in Targets yet, so the parent *)
(* is an earlier target of the file or the child itself.                   *)
TargetGraphs == SUBSET {edge \in Targets \X Targets : edge[1] <= edge[2]}

(* the elements of a set of targets in ascending order *)
RECURSIVE Ascending(_)
Ascending(targets) ==
    IF targets = {} THEN <<>>
    ELSE LET least == CHOOSE t \in targets : \A o \in targets : t <= o
         IN  <<least>> \o Ascending(targets \ {least})

(* _get_target_children: SELECT childTarget ... ORDER BY childTarget ASC *)
GetTargetChildren(target) ==
    Ascending({edge[2] : edge \in {e \in target_graph : e[1] = target}})

(* get_all_target_children(target_name), up to the loop *)
GetAllTargetChildrenCall ==
    /\ pc = "idle"
    /\ \E target \in Targets :
          /\ target_name' = target
          /\ nodes_to_explore' = <<target>>
    /\ all_children' = {}
    /\ pc' = "exploring"
    /\ UNCHANGED <<procVars, exc, line_idx, result, logger, i2cVars, spiVars, verVars,
                   sesVars, test_suite_output, database, target_graph, cbVars>>

(* one round of a loop that does not go on to the children it finds *)
GetAllTargetChildrenExplore_DirectChildrenOnly ==
    /\ pc = "exploring"
    /\ Len(nodes_to_explore) > 0
    /\ LET curr_target == nodes_to_explore[Len(nodes_to_explore)]
           this_target_children == GetTargetChildren(curr_target)
       IN  /\ all_children' = all_children
                 \cup {this_target_children[i] : i \in 1..Len(this_target_children)}
           /\ nodes_to_explore' =
                 SubSeq(nodes_to_explore, 1, Len(nodes_to_explore) - 1)
    /\ UNCHANGED <<procVars, ctlVars, i2cVars, spiVars, verVars, sesVars,
                   test_suite_output, database, target_graph, target_name, cbVars>>

(* one round of the loop: pop() takes the node appended last *)
GetAllTargetChildrenExplore ==
    /\ pc = "exploring"
    /\ Len(nodes_to_explore) > 0
    /\ LET curr_target == nodes_to_explore[Len(nodes_to_explore)]
           this_target_children == GetTargetChildren(curr_target)
       IN  /\ all_children' = all_children
                 \cup {this_target_children[i] : i \in 1..Len(this_target_children)}
           /\ nodes_to_explore' =
                 SubSeq(nodes_to_explore, 1, Len(nodes_to_explore) - 1)
                    \o this_target_children
    /\ UNCHANGED <<procVars, ctlVars, i2cVars, spiVars, verVars, sesVars,
                   test_suite_output, database, target_graph, target_name, cbVars>>

(* the loop ends with nothing left to explore; return all_children *)
GetAllTargetChildrenReturn ==
    /\ pc = "exploring"
    /\ Len(nodes_to_explore) = 0
    /\ result' = all_children
    /\ pc' = "returned"
    /\ UNCHANGED <<procVars, exc, line_idx, logger, i2cVars, spiVars, verVars, sesVars,
                   treVars, cbVars>>

InitTargetGraph ==
    /\ InitProc /\ InitCtl /\ InitI2C /\ InitSPI /\ InitVer /\ InitSes
    /\ test_suite_output = <<>>
    /\ database = <<>>
    /\ target_graph \in TargetGraphs
    /\ target_name = None
    /\ nodes_to_explore = <<>>
    /\ all_children = {}
    /\ InitCb

NextTargetGraph ==
    \/ GetAllTargetChildrenCall
    \/ GetAllTargetChildrenExplore
    \/ GetAllTargetChildrenReturn

(* the call runs on: a round of the loop that can be taken is taken *)
SpecTargetGraph ==
    InitTargetGraph /\ [][NextTargetGraph]_vars /\ WF_vars(NextTargetGraph)

(***************************************************************************)
(* The host tests i2c_slave_comms.py and spi_slave_comms.py: the callbacks *)
(* that make the serial bridge do a transfer, compare what the logic       *)
(* analyzer recorded and reply to the device.                              *)
(***************************************************************************)
MaxTransferBytes == 2

(* the data bytes of a command *)
TransferBytes == SeqsUpTo({1, 2}, MaxTransferBytes) \ {<<>>}

(* the 8-bit address of a command: the write or the read address *)
CommandAddrs == {160, 161}

(* addr | 1 *)
ReadAddr(addr) == IF addr % 2 = 0 THEN addr + 1 ELSE addr

(* other bytes of the same length: the first byte differs *)
OtherBytes(data) == [i \in 1..Len(data) |-> IF i = 1 THEN 3 - data[i] ELSE data[i]]

(* what a transfer of the serial bridge ends with: the bytes it returns    *)
(* (the expected ones or others), or an exception                          *)
BridgeOutcomes(expected_bytes) ==
    {[raised |-> FALSE, data |-> data] : data \in {expected_bytes, OtherBytes(expected_bytes)}}
        \cup {[raised |-> TRUE, data |-> <<>>]}

(* what SigrokI2CRecorder.get_result ends with: the expected events, none  *)
(* (also after a timeout), others, or RuntimeError after a failure of      *)
(* sigrok-cli                                                              *)
I2CRecorderOutcomes(expected_i2c_data) ==
    {[raised |-> "none", data |-> data] :
        data \in {expected_i2c_data, <<>>,
                  SubSeq(expected_i2c_data, 1, Len(expected_i2c_data) - 2)
                      \o <<I2CNack, I2CStop>>,
                  SubSeq(expected_i2c_data, 1, Len(expected_i2c_data) - 2)
                      \o <<I2CAck, I2CStop>>}}
        \cup {[raised |-> "RuntimeError", data |-> <<>>]}

(* what SigrokSPIRecorder.get_result ends with: the expected transaction,  *)
(* none, another one, or the exception of a failure or a timeout           *)
SPIRecorderOutcomes(expected_transactions) ==
    {[raised |-> "none", data |-> data] :
        data \in {expected_transactions, <<>>,
                  <<[mosi_bytes |-> expected_transactions[1].mosi_bytes,
                     miso_bytes |-> OtherBytes(expected_transactions[1].miso_bytes)]>>}}
        \cup {[raised |-> exception, data |-> <<>>] :
                exception \in {"RuntimeError", "TimeoutExpired"}}

(* the I2CDataByte and I2CAck of every byte written *)
RECURSIVE DataThenAck(_)
DataThenAck(data) ==
    IF data = <<>> THEN <<>>
    ELSE <<I2CDataByte(Head(data)), I2CAck>> \o DataThenAck(Tail(data))

(* the I2CAck and I2CDataByte of every byte read *)
RECURSIVE AckThenData(_)
AckThenData(data) ==
    IF data = <<>> THEN <<>>
    ELSE <<I2CAck, I2CDataByte(Head(data))>> \o AckThenData(Tail(data))

Reply(success) == IF success THEN "complete" ELSE "error"

(* _callback_write_bytes_to_slave('addr <addr> data <bytes>') *)
CallbackWriteBytesToSlave ==
    /\ pc = "idle"
    /\ \E addr \in CommandAddrs, bytes_to_write \in TransferBytes :
       \E bridge \in {b \in BridgeOutcomes(bytes_to_write) : b.data # OtherBytes(bytes_to_write)} :
          LET expected_i2c_data ==
                  <<I2CStart, I2CWriteToAddr(addr), I2CAck>>
                      \o DataThenAck(bytes_to_write) \o <<I2CStop>>
              bridge_log == IF bridge.raised
                            THEN <<PrnErr("Error writing to I2C slave", <<>>)>>
                            ELSE <<>>
          IN  \E recorded \in I2CRecorderOutcomes(expected_i2c_data) :
                 /\ transfer' = <<[callback |-> "write_bytes_to_slave",
                                   expected_bytes |-> bytes_to_write,
                                   bridge |-> bridge, recorded |-> recorded]>>
                 /\ IF recorded.raised # "none"
                    THEN /\ pc' = "raised"
                         /\ exc' = recorded.raised
                         /\ logger' = logger \o bridge_log
                         /\ UNCHANGED verVars
                    ELSE LET diff == PrettyDiffI2CData(expected_i2c_data, recorded.data)
                             success == ~bridge.raised /\ diff.match
                         IN  /\ pc' = "replied"
                             /\ exc' = exc
                             /\ logger' = logger \o bridge_log \o diff.log
                             /\ expected' = expected_i2c_data
                             /\ actual' = recorded.data
                             /\ verifier' = "pretty_diff_i2c_data"
                             /\ match' = diff.match
                             /\ sent_kv' = Append(sent_kv,
                                              <<"write_bytes_to_slave", Reply(success)>>)
    /\ UNCHANGED <<procVars, line_idx, result, i2cVars, spiVars, sesVars, treVars>>

(* _callback_read_bytes_from_slave('addr <addr> expected-data <bytes>'):   *)
(* read_data has no value when i2c_read raised, and reading it raises      *)
(* UnboundLocalError before the recorder is asked                          *)
CallbackReadBytesFromSlave ==
    /\ pc = "idle"
    /\ \E addr \in CommandAddrs, expected_data_bytes \in TransferBytes :
       \E bridge \in BridgeOutcomes(expected_data_bytes) :
          LET expected_i2c_data ==
                  <<I2CStart, I2CReadFromAddr(ReadAddr(addr))>>
                      \o AckThenData(expected_data_bytes) \o <<I2CNack, I2CStop>>
              bridge_log == IF bridge.raised
                            THEN <<PrnErr("Error reading from I2C slave", <<>>)>>
                            ELSE <<>>
              read_log == IF bridge.data # expected_data_bytes
                          THEN <<PrnErr("Expected but read",
                                        [expected |-> expected_data_bytes,
                                         actual |-> bridge.data])>>
                          ELSE <<>>
          IN  \E recorded \in I2CRecorderOutcomes(expected_i2c_data) :
                 /\ transfer' = <<[callback |-> "read_bytes_from_slave",
                                   expected_bytes |-> expected_data_bytes,
                                   bridge |-> bridge, recorded |-> recorded]>>
                 /\ IF bridge.raised
                    THEN /\ pc' = "raised"
                         /\ exc' = "UnboundLocalError"
                         /\ logger' = logger \o bridge_log
                         /\ UNCHANGED verVars
                    ELSE IF recorded.raised # "none"
                    THEN /\ pc' = "raised"
                         /\ exc' = recorded.raised
                         /\ logger' = logger \o read_log
                         /\ UNCHANGED verVars
                    ELSE LET diff == PrettyDiffI2CData(expected_i2c_data, recorded.data)
                             success == /\ bridge.data = expected_data_bytes
                                        /\ diff.match
                         IN  /\ pc' = "replied"
                             /\ exc' = exc
                             /\ logger' = logger \o read_log \o diff.log
                             /\ expected' = expected_i2c_data
                             /\ actual' = recorded.data
                             /\ verifier' = "pretty_diff_i2c_data"
                             /\ match' = diff.match
                             /\ sent_kv' = Append(sent_kv,
                                              <<"read_bytes_from_slave", Reply(success)>>)
    /\ UNCHANGED <<procVars, line_idx, result, i2cVars, spiVars, sesVars, treVars>>

(* _callback_do_transaction('<bytes> expected_response <bytes>'): the      *)
(* verdict of pretty_diff_spi_data replaces the one of the bridge, and     *)
(* binascii.b2a_hex(result) raises TypeError when result is None           *)
CallbackDoTransaction ==
    /\ pc = "idle"
    /\ \E bytes_to_write \in TransferBytes :
       \E expected_response \in {r \in TransferBytes : Len(r) = Len(bytes_to_write)} :
       \E bridge \in BridgeOutcomes(expected_response) :
          LET expected_transactions ==
                  <<Txn(SPITransaction(bytes_to_write, expected_response))>>
              bridge_log == IF bridge.raised
                            THEN <<PrnErr("Error writing to SPI slave", <<>>)>>
                            ELSE <<>>
          IN  \E recorded \in SPIRecorderOutcomes(expected_transactions) :
                 /\ transfer' = <<[callback |-> "do_transaction",
                                   expected_bytes |-> expected_response,
                                   bridge |-> bridge, recorded |-> recorded]>>
                 /\ IF recorded.raised # "none"
                    THEN /\ pc' = "raised"
                         /\ exc' = recorded.raised
                         /\ logger' = logger \o bridge_log
                         /\ UNCHANGED verVars
                    ELSE LET diff == PrettyDiffSPIData(expected_transactions, recorded.data)
                         IN  /\ expected' = expected_transactions
                             /\ actual' = recorded.data
                             /\ verifier' = "pretty_diff_spi_data"
                             /\ IF diff.raised # "none"
                                THEN /\ pc' = "raised"
                                     /\ exc' = diff.raised
                                     /\ logger' = logger \o bridge_log \o diff.log
                                     /\ UNCHANGED <<match, sent_kv>>
                                ELSE IF bridge.raised
                                THEN /\ pc' = "raised"
                                     /\ exc' = "TypeError"
                                     /\ logger' = logger \o bridge_log \o diff.log
                                     /\ match' = diff.match
                                     /\ sent_kv' = sent_kv
                                ELSE LET differs == bridge.data # expected_response
                                         success == diff.match /\ ~differs
                                     IN  /\ pc' = "replied"
                                         /\ exc' = exc
                                         /\ logger' = logger \o diff.log
                                               \o <<PrnInf("Serial bridge sent and got back",
                                                           [sent |-> bytes_to_write,
                                                            back |-> bridge.data])>>
                                               \o (IF differs
                                                   THEN <<PrnErr("Incorrect response read back on master.",
                                                                 expected_response)>>
                                                   ELSE <<>>)
                                         /\ match' = diff.match
                                         /\ sent_kv' = Append(sent_kv,
                                                <<"do_transaction", Reply(success)>>)
    /\ UNCHANGED <<procVars, line_idx, result, i2cVars, spiVars, sesVars, treVars>>

InitSlaveComms ==
    InitProc /\ InitCtl /\ InitI2C /\ InitSPI /\ InitVer /\ InitSes /\ InitTre /\ InitCb

NextSlaveComms ==
    \/ CallbackWriteBytesToSlave
    \/ CallbackReadBytesFromSlave
    \/ CallbackDoTransaction

SpecSlaveComms == InitSlaveComms /\ [][NextSlaveComms]_vars

(***************************************************************************)
(* Properties of the I2C line decoder.                                     *)
(***************************************************************************)
Last(q) == q[Len(q)]

(* the eight event rules of the decoder, in their priority order *)
I2CRuleMatches(rule, line) ==
    CASE rule = 1 -> SR_I2C_REPEATED_START(line).matched
      [] rule = 2 -> SR_I2C_START(line).matched
      [] rule = 3 -> SR_I2C_WRITE_TO_ADDR(line).matched
      [] rule = 4 -> SR_I2C_READ_FROM_ADDR(line).matched
      [] rule = 5 -> SR_I2C_DATA_BYTE(line).matched
      [] rule = 6 -> SR_I2C_ACK(line).matched
      [] rule = 7 -> SR_I2C_NACK(line).matched
      [] rule = 8 -> SR_I2C_STOP(line).matched

I2CRuleKind(rule) ==
    CASE rule = 1 -> "I2CRepeatedStart"
      [] rule = 2 -> "I2CStart"
      [] rule = 3 -> "I2CWriteToAddr"
      [] rule = 4 -> "I2CReadFromAddr"
      [] rule = 5 -> "I2CDataByte"
      [] rule = 6 -> "I2CAck"
      [] rule = 7 -> "I2CNack"
      [] rule = 8 -> "I2CStop"

(* the first rule a line matches, 0 when it matches none *)
FirstMatchingRule(line) ==
    LET hits == {rule \in 1..8 : I2CRuleMatches(rule, line)}
    IN  IF hits = {} THEN 0
        ELSE CHOOSE rule \in hits : \A other \in hits : rule <= other

(* the payload of a line whose first rule is an address or data rule *)
I2CPayload(line) ==
    LET rule == FirstMatchingRule(line)
    IN  CASE rule = 3 -> SR_I2C_WRITE_TO_ADDR(line).group1
          [] rule = 4 -> SR_I2C_READ_FROM_ADDR(line).group1
          [] rule = 5 -> SR_I2C_DATA_BYTE(line).group1
          [] OTHER -> <<>>

(* the events one line stands for: none, or the event of its first rule *)
LineEvents(line) ==
    LET rule  == FirstMatchingRule(line)
        value == PyIntBase16(I2CPayload(line)).val
    IN  CASE rule = 0 -> <<>>
          [] rule = 1 -> <<I2CRepeatedStart>>
          [] rule = 2 -> <<I2CStart>>
          [] rule = 3 -> <<I2CWriteToAddr(value)>>
          [] rule = 4 -> <<I2CReadFromAddr(value)>>
          [] rule = 5 -> <<I2CDataByte(value)>>
          [] rule = 6 -> <<I2CAck>>
          [] rule = 7 -> <<I2CNack>>
          [] rule = 8 -> <<I2CStop>>

RECURSIVE ConcatEvents(_)
ConcatEvents(lines) ==
    IF lines = <<>> THEN <<>>
    ELSE ConcatEvents(SubSeq(lines, 1, Len(lines) - 1)) \o LineEvents(Last(lines))

IsBenignLine(line) == line = LineRead \/ line = LineWrite \/ line = EmptyLine

IsUnparsedLine(line) == FirstMatchingRule(line) = 0 /\ ~IsBenignLine(line)

RECURSIVE UnparsedWarnings(_)
UnparsedWarnings(lines) ==
    IF lines = <<>> THEN <<>>
    ELSE UnparsedWarnings(SubSeq(lines, 1, Len(lines) - 1))
            \o (IF IsUnparsedLine(Last(lines)) THEN <<UnparsedWarning(Last(lines))>>
                ELSE <<>>)

IsTwoHexDigits(payload) ==
    Len(payload) = 2 /\ payload[1] \in HexDigitChars /\ payload[2] \in HexDigitChars

(* C1: every iteration of the I2C parse loop that completes leaves the     *)
(* events decoded so far in place and adds at most one event: none when    *)
(* the line matches no event rule, otherwise exactly the event of the      *)
(* first rule the line matches in the order repeated start, start, address *)
(* write, address read, data byte, ack, nack, stop; a line that begins     *)
(* with the repeated-start marker adds RepeatedStart, never Start.         *)
C1_FirstMatchingRuleDecides ==
    [][ (pc = "loop" /\ line_idx' = line_idx + 1) =>
            LET line == proc_stdout[line_idx']
                rule == FirstMatchingRule(line)
                n    == Len(i2c_transaction)
            IN  /\ SubSeq(i2c_transaction', 1, n) = i2c_transaction
                /\ IF rule = 0 THEN i2c_transaction' = i2c_transaction
                   ELSE /\ Len(i2c_transaction') = n + 1
                        /\ i2c_transaction'[n + 1].kind = I2CRuleKind(rule)
                /\ StartsWith(line, LineStartRepeat) =>
                      /\ Len(i2c_transaction') = n + 1
                      /\ i2c_transaction'[n + 1] = I2CRepeatedStart
      ]_vars

(* a repeated-start line has just been decoded, after a start line *)
C1_Witness ==
    /\ pc = "loop"
    /\ line_idx = 2
    /\ proc_stdout[1] = LineStart
    /\ proc_stdout[2] = LineStartRepeat
    /\ i2c_transaction = <<I2CStart, I2CRepeatedStart>>

(* C2: the events the I2C decoder has collected after any number of lines, *)
(* and the list it returns once the output was obtained, are the in-order  *)
(* concatenation of the events of the lines read: nothing is dropped,      *)
(* duplicated or reordered, and lines without an event add nothing.        *)
C2_InOrderConcatenation ==
    /\ pc = "loop" =>
          i2c_transaction = ConcatEvents(SubSeq(proc_stdout, 1, line_idx))
    /\ (pc = "returned" /\ sigrok_process = "exited_0") =>
          result = ConcatEvents(proc_stdout)

(* the capture of the spec's example has been decoded and returned *)
C2_Witness ==
    /\ pc = "returned"
    /\ sigrok_process = "exited_0"
    /\ proc_stdout = CaptureCorrectAddrOnly
    /\ result = <<I2CStart, I2CWriteToAddr(160), I2CAck, I2CStop>>

(* C3: once the output was obtained, I2C decoding never aborts, whatever   *)
(* the lines hold: the warnings logged are exactly one per line read that  *)
(* matches no event rule and is not benign, in order, and the loop goes on *)
(* to the lines after it and returns.                                      *)
C3_DecodeNeverAborts ==
    /\ sigrok_process = "exited_0" => pc # "raised"
    /\ pc = "loop" => logger = UnparsedWarnings(SubSeq(proc_stdout, 1, line_idx))
    /\ (pc = "returned" /\ sigrok_process = "exited_0") =>
          logger = UnparsedWarnings(proc_stdout)

(* C4: every line read whose first rule is an address or data rule has a   *)
(* payload of exactly two hex digits and added an event that carries their *)
(* value, which lies in 0..255; with any other payload it added no event.  *)
C4_PayloadIsTwoHexDigits ==
    /\ \A i \in 1..Len(i2c_transaction) :
          LET item == i2c_transaction[i]
          IN  /\ item.kind \in {"I2CWriteToAddr", "I2CReadFromAddr"} =>
                    item.address \in 0..255
              /\ item.kind = "I2CDataByte" => item.data \in 0..255
    /\ (pc = "loop" /\ line_idx >= 1
            /\ FirstMatchingRule(proc_stdout[line_idx]) \in {3, 4, 5}) =>
          LET payload == I2CPayload(proc_stdout[line_idx])
              before  == ConcatEvents(SubSeq(proc_stdout, 1, line_idx - 1))
          IN  IF IsTwoHexDigits(payload)
              THEN /\ Len(i2c_transaction) = Len(before) + 1
                   /\ Last(i2c_transaction) \in
                         { I2CWriteToAddr(HexValue(payload)),
                           I2CReadFromAddr(HexValue(payload)),
                           I2CDataByte(HexValue(payload)) }
              ELSE Len(i2c_transaction) = Len(before)

(***************************************************************************)
(* Properties of the SPI frame decoder.                                    *)
(***************************************************************************)
SPIMatches(line) == SR_SPI_DATA_BYTES(line).matched

(* the lines that match the byte-list pattern, in order *)
MatchingLines(lines) == SelectSeq(lines, SPIMatches)

(* the space-separated byte strings of a matching line and their values *)
ByteStrings(line) == SplitOnSpace(SR_SPI_DATA_BYTES(line).group1)

ByteValues(line) ==
    [i \in 1..Len(ByteStrings(line)) |-> HexValue(ByteStrings(line)[i])]

HasEmptyByteString(line) ==
    \E i \in 1..Len(ByteStrings(line)) : ByteStrings(line)[i] = <<>>

(* a list of bytes: every byte string is one or two hex digits *)
IsByteList(line) ==
    /\ SPIMatches(line)
    /\ \A i \in 1..Len(ByteStrings(line)) : Len(ByteStrings(line)[i]) \in {1, 2}

(* one transaction per consecutive pair of lines: miso first, mosi second *)
PairUp(lines) ==
    [i \in 1..(Len(lines) \div 2) |->
        [mosi_bytes |-> ByteValues(lines[2 * i]),
         miso_bytes |-> ByteValues(lines[2 * i - 1])]]

(* a pair SPITransaction accepts *)
PairConstructs(first, second) ==
    /\ Len(ByteValues(first)) = Len(ByteValues(second))
    /\ BytesOk(ByteValues(first))
    /\ BytesOk(ByteValues(second))

SPIDecoded == sigrok_process = "exited_0"

(* C5 as claimed: in chip-select mode, whenever every matching line is a   *)
(* list of bytes, get_result yields one transaction per consecutive pair   *)
(* of matching lines (miso the first line, mosi the second), in pair       *)
(* order, floor(matching lines / 2) of them.                               *)
C5_EveryPairYieldsATransaction ==
    (/\ pc \in {"returned", "raised"}
     /\ SPIDecoded
     /\ has_cs_pin = TRUE
     /\ \A i \in 1..Len(proc_stdout) : SPIMatches(proc_stdout[i]) => IsByteList(proc_stdout[i]))
    => /\ pc = "returned"
       /\ result = PairUp(MatchingLines(proc_stdout))

(* C5 as amended: in chip-select mode the matching lines are consumed in   *)
(* consecutive pairs; the transactions collected so far, and the list      *)
(* returned, hold exactly one transaction per completed pair, in pair      *)
(* order, with miso the first line and mosi the second, so a return holds  *)
(* floor(matching lines / 2) transactions; get_result fails with           *)
(* ValueError, returning nothing, exactly at a matching line that holds an *)
(* empty byte string or completes a pair SPITransaction refuses (different *)
(* byte counts, or a value above 255).                                     *)
C5_PairsYieldTransactionsUnlessRefused ==
    /\ (pc \in {"loop", "returned"} /\ SPIDecoded /\ has_cs_pin = TRUE) =>
          LET seen == MatchingLines(SubSeq(proc_stdout, 1, line_idx))
          IN  /\ spi_data = PairUp(seen)
              /\ Len(spi_data) = Len(seen) \div 2
              /\ previous_line_data =
                    (IF Len(seen) % 2 = 1 THEN <<ByteValues(Last(seen))>> ELSE <<>>)
              /\ \A i \in 1..Len(seen) : ~HasEmptyByteString(seen[i])
              /\ \A i \in 1..(Len(seen) \div 2) : PairConstructs(seen[2 * i - 1], seen[2 * i])
              /\ pc = "returned" => (line_idx = Len(proc_stdout) /\ result = spi_data)
    /\ (pc = "raised" /\ SPIDecoded /\ has_cs_pin = TRUE) =>
          LET seen == MatchingLines(SubSeq(proc_stdout, 1, line_idx))
              line == proc_stdout[line_idx + 1]
          IN  /\ exc = "ValueError"
              /\ result = None
              /\ SPIMatches(line)
              /\ \/ HasEmptyByteString(line)
                 \/ Len(seen) % 2 = 1 /\ ~PairConstructs(Last(seen), line)

(* two pairs have been decoded and returned, miso first *)
C5_Witness ==
    /\ pc = "returned"
    /\ has_cs_pin = TRUE
    /\ proc_stdout = CaptureTwoTransfers
    /\ result = <<[mosi_bytes |-> <<2>>, miso_bytes |-> <<1>>],
                  [mosi_bytes |-> <<1>>, miso_bytes |-> <<15>>]>>

RECURSIVE CountNotMatching(_)
CountNotMatching(lines) ==
    IF lines = <<>> THEN 0
    ELSE CountNotMatching(SubSeq(lines, 1, Len(lines) - 1))
            + (IF SPIMatches(Last(lines)) THEN 0 ELSE 1)

(* C6 as claimed: in chip-select mode every line read that does not match  *)
(* the byte-list pattern has produced one warning, and a capture whose     *)
(* last matching line has no partner is decoded without error.             *)
C6_EveryUnmatchedLineWarns ==
    /\ (pc \in {"loop", "returned"} /\ SPIDecoded /\ has_cs_pin = TRUE) =>
          Len(logger) = CountNotMatching(SubSeq(proc_stdout, 1, line_idx))
    /\ (pc = "raised" /\ SPIDecoded /\ has_cs_pin = TRUE) =>
          previous_line_data # NoList

(* C6 as amended: in chip-select mode a step over a line that does not     *)
(* match the byte-list pattern adds one warning if the line is not empty   *)
(* and none if it is empty, adds no transaction and leaves the pending     *)
(* first line of the current pair as it is; a matching line left without a *)
(* partner at the end of input yields no transaction and no warning, and   *)
(* get_result fails on a line that opens a pair only if one of its byte    *)
(* strings is empty.                                                       *)
C6_UnmatchedLinesKeepThePairing ==
    /\ [] ( (pc = "returned" /\ has_cs_pin = TRUE /\ previous_line_data # NoList) =>
               LET all == MatchingLines(proc_stdout)
               IN  /\ Len(all) % 2 = 1
                   /\ previous_line_data = <<ByteValues(Last(all))>>
                   /\ result = PairUp(SubSeq(all, 1, Len(all) - 1))
                   /\ \A i \in 1..Len(logger) : logger[i].line # Last(all) )
    /\ [] ( (pc = "raised" /\ SPIDecoded /\ has_cs_pin = TRUE
                /\ previous_line_data = NoList) =>
               HasEmptyByteString(proc_stdout[line_idx + 1]) )
    /\ [][ (pc = "loop" /\ has_cs_pin = TRUE /\ line_idx < Len(proc_stdout)
               /\ ~SPIMatches(proc_stdout[line_idx + 1])) =>
               /\ pc' = "loop"
               /\ line_idx' = line_idx + 1
               /\ spi_data' = spi_data
               /\ previous_line_data' = previous_line_data
               /\ logger' = IF proc_stdout[line_idx + 1] = EmptyLine THEN logger
                            ELSE Append(logger, UnparsedWarning(proc_stdout[line_idx + 1]))
       ]_vars

(* an unparsed line between the two lines of a pair, then a lone line *)
C6_Witness ==
    /\ pc = "returned"
    /\ has_cs_pin = TRUE
    /\ proc_stdout = CaptureInterruptedPair
    /\ result = <<[mosi_bytes |-> <<2>>, miso_bytes |-> <<1>>]>>
    /\ logger = <<UnparsedWarning(GarbageLine)>>
    /\ previous_line_data = <<<<15>>>>

(* a one-byte line: the group, blanks aside, is one or two hex digits *)
IsOneByteLine(line) ==
    /\ SPIMatches(line)
    /\ LET digits == RStrip(LStrip(SR_SPI_DATA_BYTES(line).group1))
       IN  /\ Len(digits) \in {1, 2}
           /\ \A i \in 1..Len(digits) : digits[i] \in UpperHexDigitChars

IsOneByteCapture(lines) ==
    \A i \in 1..Len(lines) : SPIMatches(lines[i]) => IsOneByteLine(lines[i])

(* the bytes of the matching lines of a one-byte capture, in order *)
CapturedBytes(lines) ==
    LET seen == MatchingLines(lines)
    IN  [i \in 1..Len(seen) |->
            HexValue(RStrip(LStrip(SR_SPI_DATA_BYTES(seen[i]).group1)))]

OddIndexed(q)  == [i \in 1..((Len(q) + 1) \div 2) |-> q[2 * i - 1]]
EvenIndexed(q) == [i \in 1..(Len(q) \div 2) |-> q[2 * i]]

(* C7 as claimed: without chip select, for every capture of one-byte lines *)
(* get_result returns exactly one transaction, with the 1st, 3rd, ...      *)
(* bytes as miso and the 2nd, 4th, ... as mosi, of equal length.           *)
C7_OneTransactionForEveryCapture ==
    (/\ pc \in {"returned", "raised"}
     /\ SPIDecoded
     /\ has_cs_pin = FALSE
     /\ IsOneByteCapture(proc_stdout))
    => /\ pc = "returned"
       /\ result = <<[mosi_bytes |-> EvenIndexed(CapturedBytes(proc_stdout)),
                      miso_bytes |-> OddIndexed(CapturedBytes(proc_stdout))]>>
       /\ Len(result[1].mosi_bytes) = Len(result[1].miso_bytes)

(* C7 as amended: without chip select, over a capture of one-byte lines    *)
(* the 1st, 3rd, ... parsable bytes read so far form miso and the 2nd,     *)
(* 4th, ... form mosi, in input order; when the capture holds an even      *)
(* number of parsable bytes get_result returns exactly one transaction of  *)
(* these two sequences, of equal length; when it holds an odd number miso  *)
(* is one byte longer than mosi and get_result fails with the ValueError   *)
(* of SPITransaction and returns no transaction.                           *)
C7_OneTransactionForEvenCaptures ==
    (/\ pc \in {"loop", "returned", "raised"}
     /\ SPIDecoded
     /\ has_cs_pin = FALSE
     /\ IsOneByteCapture(proc_stdout))
    => LET seen == CapturedBytes(SubSeq(proc_stdout, 1, line_idx))
       IN  /\ miso_bytes = OddIndexed(seen)
           /\ mosi_bytes = EvenIndexed(seen)
           /\ next_line_is_miso = (Len(seen) % 2 = 0)
           /\ pc # "loop" =>
                 /\ line_idx = Len(proc_stdout)
                 /\ IF Len(seen) % 2 = 0
                    THEN /\ pc = "returned"
                         /\ result = <<[mosi_bytes |-> EvenIndexed(seen),
                                        miso_bytes |-> OddIndexed(seen)]>>
                         /\ Len(result[1].mosi_bytes) = Len(result[1].miso_bytes)
                    ELSE /\ pc = "raised"
                         /\ exc = "ValueError"
                         /\ result = None
                         /\ Len(miso_bytes) = Len(mosi_bytes) + 1

(* the capture of the spec's example is returned as one transaction *)
C7_Witness ==
    /\ pc = "returned"
    /\ has_cs_pin = FALSE
    /\ proc_stdout = CaptureAlternatingBytes
    /\ result = <<[mosi_bytes |-> <<2, 4>>, miso_bytes |-> <<1, 3>>]>>

HasNoDataLines(lines) == \A i \in 1..Len(lines) : ~SPIMatches(lines[i])

EmptyTransaction == [mosi_bytes |-> <<>>, miso_bytes |-> <<>>]

(* C8 as claimed: in either SPI mode, a capture without data lines is      *)
(* decoded without failure into an empty transaction.                      *)
C8_NoDataYieldsAnEmptyTransaction ==
    (/\ pc \in {"returned", "raised"}
     /\ SPIDecoded
     /\ HasNoDataLines(proc_stdout))
    => /\ pc = "returned"
       /\ result = <<EmptyTransaction>>

(* C8 as amended: a capture without data lines is decoded without failure  *)
(* in either SPI mode; without chip select the result is one empty         *)
(* transaction (zero-length mosi and miso), in chip-select mode it is the  *)
(* empty list, which holds no transaction at all.                          *)
C8_NoDataYieldsNothingOrAnEmptyTransaction ==
    (/\ pc \in {"returned", "raised"}
     /\ SPIDecoded
     /\ HasNoDataLines(proc_stdout))
    => /\ pc = "returned"
       /\ exc = "none"
       /\ result = IF has_cs_pin THEN <<>> ELSE <<EmptyTransaction>>

(* a capture of an unparsed line and the final empty line, no chip select *)
C8_Witness ==
    /\ pc = "returned"
    /\ has_cs_pin = FALSE
    /\ proc_stdout = <<GarbageLine, EmptyLine>>
    /\ result = <<EmptyTransaction>>

(* C9: every SPITransaction the decoder holds or returns has mosi and miso *)
(* of equal length; a construction from sequences of different lengths     *)
(* fails with ValueError and yields no transaction: without chip select    *)
(* get_result then returns nothing, and in chip-select mode the loop never *)
(* gets past a pair of lines with different byte counts.                   *)
C9_TransactionsHaveEqualLengths ==
    /\ \A i \in 1..Len(spi_data) :
          Len(spi_data[i].mosi_bytes) = Len(spi_data[i].miso_bytes)
    /\ pc = "returned" =>
          \A i \in 1..Len(result) :
              Len(result[i].mosi_bytes) = Len(result[i].miso_bytes)
    /\ (/\ pc \in {"returned", "raised"}
        /\ SPIDecoded
        /\ has_cs_pin = FALSE
        /\ line_idx = Len(proc_stdout)
        /\ Len(miso_bytes) # Len(mosi_bytes))
       => (pc = "raised" /\ exc = "ValueError" /\ result = None)
    /\ (pc \in {"loop", "returned"} /\ SPIDecoded /\ has_cs_pin = TRUE) =>
          LET seen == MatchingLines(SubSeq(proc_stdout, 1, line_idx))
          IN  \A i \in 1..(Len(seen) \div 2) :
                  Len(ByteStrings(seen[2 * i - 1])) = Len(ByteStrings(seen[2 * i]))

(* the construction from a two-byte and a one-byte line has failed *)
C9_Witness ==
    /\ pc = "raised"
    /\ has_cs_pin = TRUE
    /\ exc = "ValueError"
    /\ previous_line_data = <<<<1, 2>>>>
    /\ proc_stdout[line_idx + 1] = SPILine(<<"0", "1">>)
    /\ spi_data = <<>>

(***************************************************************************)
(* Properties of the verifiers.                                            *)
(***************************************************************************)
EqualByValue(expected_items, actual_items) ==
    /\ Len(expected_items) = Len(actual_items)
    /\ \A i \in 1..Len(expected_items) : expected_items[i] = actual_items[i]

(* C10: each of the three verifiers (pretty_diff_i2c_data,                 *)
(* pretty_diff_spi_data, the check of the I2C basic test) reports a match  *)
(* if and only if expected and actual have equal length and are equal by   *)
(* value at every index; the I2C basic test replies 'complete' exactly on  *)
(* a match and 'failed' otherwise.                                         *)
C10_MatchIffEqualLengthAndItems ==
    pc = "verified" =>
        /\ verifier \in {"pretty_diff_i2c_data", "pretty_diff_spi_data", "verify_sequence"}
        /\ match = EqualByValue(expected, actual)
        /\ verifier = "verify_sequence" =>
              sent_kv = <<<<"verify_sequence", IF match THEN "complete" ELSE "failed">>>>

(* verify([Start, Ack, Stop], [Start, Nack, Stop]) has reported a mismatch *)
C10_Witness ==
    /\ pc = "verified"
    /\ verifier = "pretty_diff_i2c_data"
    /\ expected = <<I2CStart, I2CAck, I2CStop>>
    /\ actual = <<I2CStart, I2CNack, I2CStop>>
    /\ match = FALSE

(* the messages that report a mismatch at an index, and the index named *)
IsMismatchEntry(message) ==
    message.text \in {"Data item at index", "MOSI byte", "miso byte",
                      "Transaction: expected length"}

MismatchEntries == SelectSeq(logger, IsMismatchEntry)

EntryIndex(message) ==
    IF message.text = "Data item at index" THEN message.data.index
    ELSE message.data.transaction

EntryIndexes == [i \in 1..Len(MismatchEntries) |-> EntryIndex(MismatchEntries[i])]

(* the 0-based indexes at which expected differs from actual, increasing *)
DifferingIndexes ==
    {i - 1 : i \in {j \in 1..Len(expected) : expected[j] # actual[j]}}

RECURSIVE Increasing(_)
Increasing(S) ==
    IF S = {} THEN <<>>
    ELSE LET least == CHOOSE x \in S : \A y \in S : x <= y
         IN  <<least>> \o Increasing(S \ {least})

CountOf(idx) == Cardinality({i \in 1..Len(EntryIndexes) : EntryIndexes[i] = idx})

(* the entries pretty_diff_spi_data owes to transaction idx (0-based) *)
SPIEntriesOwed(idx) ==
    LET e == expected[idx + 1]
        a == actual[idx + 1]
    IN  IF Len(a.mosi_bytes) # Len(e.mosi_bytes) THEN 1
        ELSE Cardinality({k \in 1..Len(a.mosi_bytes) : a.mosi_bytes[k] # e.mosi_bytes[k]})
           + Cardinality({k \in 1..Len(a.mosi_bytes) : a.miso_bytes[k] # e.miso_bytes[k]})

(* C11 as claimed: when expected and actual have equal length, a verifier  *)
(* reports exactly one mismatch entry for every index at which they        *)
(* differ, none for any other index, in increasing index order.            *)
C11_OneEntryPerDifferingIndex ==
    (pc = "verified" /\ Len(expected) = Len(actual))
    => EntryIndexes = Increasing(DifferingIndexes)

(* C11 as amended: when expected and actual have equal length, a verifier  *)
(* goes through every index and never stops at the first mismatch: it      *)
(* reports entries for every index at which they differ and for no other   *)
(* index, in index order; the I2C verifiers report exactly one entry for   *)
(* such an index, pretty_diff_spi_data reports one entry when the mosi     *)
(* lengths of the two transactions differ and otherwise one entry for      *)
(* every differing mosi byte and one for every differing miso byte.        *)
C11_EntriesForEveryDifferingIndex ==
    (pc = "verified" /\ Len(expected) = Len(actual))
    => /\ {EntryIndexes[i] : i \in 1..Len(EntryIndexes)} = DifferingIndexes
       /\ \A i, j \in 1..Len(EntryIndexes) : i <= j => EntryIndexes[i] <= EntryIndexes[j]
       /\ verifier \in {"pretty_diff_i2c_data", "verify_sequence"} =>
              EntryIndexes = Increasing(DifferingIndexes)
       /\ verifier = "pretty_diff_spi_data" =>
              \A idx \in 0..(Len(expected) - 1) : CountOf(idx) = SPIEntriesOwed(idx)

(* two items differ and both are reported *)
C11_Witness ==
    /\ pc = "verified"
    /\ verifier = "pretty_diff_i2c_data"
    /\ expected = <<I2CDataByte(1), I2CAck>>
    /\ actual = <<I2CDataByte(2), I2CStop>>
    /\ match = FALSE
    /\ EntryIndexes = <<0, 1>>

IsLengthReport(message) ==
    message.text \in {"Expected length differs from actual!",
                      "Expected transactions but saw"}

LengthReports == SelectSeq(logger, IsLengthReport)

(* C12: when expected and actual have different lengths, a verifier        *)
(* returns a mismatch and reports the length mismatch once and no entry    *)
(* for any index, also when the common prefix differs.                     *)
C12_LengthMismatchOnly ==
    (pc = "verified" /\ Len(expected) # Len(actual))
    => /\ match = FALSE
       /\ MismatchEntries = <<>>
       /\ Len(LengthReports) = 1
       /\ verifier = "verify_sequence" => sent_kv = <<<<"verify_sequence", "failed">>>>

(* lists of different lengths whose first items differ were compared *)
C12_Witness ==
    /\ pc = "verified"
    /\ verifier = "pretty_diff_spi_data"
    /\ expected = <<[mosi_bytes |-> <<1>>, miso_bytes |-> <<1>>]>>
    /\ actual = <<[mosi_bytes |-> <<2>>, miso_bytes |-> <<2>>],
                  [mosi_bytes |-> <<>>, miso_bytes |-> <<>>]>>
    /\ match = FALSE
    /\ Len(logger) = 2

(* C13: for every pair of expected and actual sequences a verifier ends    *)
(* by returning its verdict, a boolean; no exception leaves it.            *)
C13_VerdictIsReturned ==
    verifier # None =>
        /\ pc = "verified"
        /\ exc = "none"
        /\ match \in BOOLEAN

(* SPI transactions of different byte lengths gave a verdict *)
C13_Witness ==
    /\ pc = "verified"
    /\ verifier = "pretty_diff_spi_data"
    /\ expected = <<[mosi_bytes |-> <<>>, miso_bytes |-> <<>>]>>
    /\ actual = <<[mosi_bytes |-> <<1, 2>>, miso_bytes |-> <<1, 2>>]>>
    /\ match = FALSE
    /\ exc = "none"


(***************************************************************************)
(* Properties of the capture session                                       *)
(***************************************************************************)
(* a step that is the call of the named operation of the recorder *)
Calls(name) ==
    /\ BetweenCalls
    /\ op' = name
    /\ (orphans' = orphans \/ launches' # launches)

(* a step in which _get_sigrok_output waited on a running process that did *)
(* not exit within the five seconds                                        *)
WaitElapsed ==
    \/ /\ Calls("get_result")
       /\ sigrok_process = "running"
       /\ returncode' = NoStatus
    \/ /\ Calls("measure_signal")
       /\ launches' = launches + 1
       /\ returncode' = NoStatus

(* C14: when the wait of _get_sigrok_output elapses before the process     *)
(* exits, the process is killed and is not running afterwards, no text is  *)
(* handed to the caller, the timeout error leaves _get_sigrok_output (it   *)
(* reaches the caller of every operation that does not catch it), and a    *)
(* teardown that follows ends without an exception and leaves the process  *)
(* killed.                                                                 *)
C14_TimeoutKillsProcess ==
    [][ /\ WaitElapsed =>
            /\ sigrok_process' = "killed"
            /\ proc_stdout' = proc_stdout
            /\ pc' # "loop"
            /\ recorder # "i2c" =>
                  /\ pc' = "raised"
                  /\ exc' = "TimeoutExpired"
                  /\ exc_args' = [timeout |-> 5]
                  /\ result' = None
        /\ (Calls("teardown") /\ sigrok_process = "killed") =>
            /\ pc' = "torn_down"
            /\ exc' = "none"
            /\ sigrok_process' = "killed"
      ]_vars

C14_Witness ==
    /\ op = "teardown"
    /\ pc = "torn_down"
    /\ sigrok_process = "killed"
    /\ recorder = "spi"

(* a step in which a result operation waited on a process that timed out   *)
(* or ended with a status other than 0                                     *)
ProcessFailed ==
    \/ /\ Calls("get_result")
       /\ sigrok_process # None
       /\ returncode' # Status(0)
    \/ /\ Calls("measure_signal")
       /\ launches' = launches + 1
       /\ returncode' # Status(0)

(* a result operation starts no process beyond the one measure_signal is   *)
(* called to start                                                         *)
NoRelaunch ==
    /\ Calls("get_result") => launches' = launches /\ orphans' = orphans
    /\ Calls("measure_signal") => launches' \in {launches, launches + 1}

(* C15 as stated: a timeout or a tool failure of the external process      *)
(* leaves every result operation as an exception, never as a result, and   *)
(* no result operation launches the process again.                         *)
C15_FailureIsSurfaced ==
    [][ /\ ProcessFailed =>
            /\ pc' = "raised"
            /\ exc' \in {"TimeoutExpired", "RuntimeError"}
            /\ result' = None
        /\ NoRelaunch
      ]_vars

(* C15: a tool failure leaves every result operation as RuntimeError, and  *)
(* a timeout leaves SigrokSPIRecorder.get_result and measure_signal as     *)
(* TimeoutExpired; SigrokI2CRecorder.get_result answers a timeout with the *)
(* result []; no result operation launches the process again.              *)
C15_FailureIsSurfacedButI2CTimeout ==
    [][ /\ ProcessFailed =>
            IF recorder = "i2c" /\ WaitElapsed
            THEN /\ pc' = "returned"
                 /\ exc' = "none"
                 /\ result' = <<>>
            ELSE /\ pc' = "raised"
                 /\ exc' = (IF WaitElapsed THEN "TimeoutExpired" ELSE "RuntimeError")
                 /\ result' = None
        /\ NoRelaunch
      ]_vars

C15_Witness ==
    /\ recorder = "spi"
    /\ op = "get_result"
    /\ pc = "raised"
    /\ exc = "TimeoutExpired"
    /\ sigrok_process = "killed"

(* C16: SigrokI2CRecorder.get_result called on a running process that does *)
(* not exit within the bound returns the empty list: it raises nothing,    *)
(* decodes no line and logs nothing.                                       *)
C16_I2CTimeoutReturnsEmptyList ==
    [][ (recorder = "i2c" /\ WaitElapsed) =>
            /\ pc' = "returned"
            /\ result' = <<>>
            /\ exc' = "none"
            /\ exc_args' = <<>>
            /\ UNCHANGED <<logger, i2c_transaction, proc_stdout>>
      ]_vars

C16_Witness ==
    /\ recorder = "i2c"
    /\ op = "get_result"
    /\ pc = "returned"
    /\ result = <<>>
    /\ sigrok_process = "killed"
    /\ returncode = NoStatus

(* a step in which a result operation waited on a process that ended with  *)
(* a status other than 0                                                   *)
ExitedNonZero ==
    /\ ProcessFailed
    /\ returncode' # NoStatus

(* a step in which a result operation waited on a process that ended with  *)
(* status 0                                                                *)
ExitedZero ==
    \/ /\ Calls("get_result")
       /\ sigrok_process # None
       /\ returncode' = Status(0)
    \/ /\ Calls("measure_signal")
       /\ launches' = launches + 1
       /\ returncode' = Status(0)

(* after exit 0 the caller holds the whole of the standard output, cut at  *)
(* every newline                                                           *)
FullTextInLines ==
    /\ proc_stdout' = SplitOnNewline(stdout_text')
    /\ JoinNewline(proc_stdout') = stdout_text'
    /\ \A i \in 1..Len(proc_stdout') :
          \A j \in 1..Len(proc_stdout'[i]) : proc_stdout'[i][j] # "\n"

(* C17 as stated: after a non-zero exit the error raised carries the exit  *)
(* status and no text is returned; after exit 0 the full standard output   *)
(* is returned split into lines.                                           *)
C17_ToolFailureCarriesStatus ==
    [][ /\ ExitedNonZero =>
            /\ exc' = "RuntimeError"
            /\ "status" \in DOMAIN exc_args'
            /\ Status(exc_args'.status) = returncode'
            /\ proc_stdout' = proc_stdout
        /\ ExitedZero => FullTextInLines
      ]_vars

(* C17: after a non-zero exit RuntimeError("Sigrok failed!") is raised,    *)
(* which carries the message only (the exit status stays in returncode of  *)
(* the process handle), and no text is returned; after exit 0 the full     *)
(* standard output is returned split into lines.                           *)
C17_ToolFailureWithoutStatus ==
    [][ /\ ExitedNonZero =>
            /\ pc' = "raised"
            /\ exc' = "RuntimeError"
            /\ exc_args' = [message |-> "Sigrok failed!"]
            /\ returncode' \notin {NoStatus, Status(0)}
            /\ result' = None
            /\ proc_stdout' = proc_stdout
        /\ ExitedZero => FullTextInLines
      ]_vars

C17_Witness ==
    /\ recorder = "spi"
    /\ op = "get_result"
    /\ pc = "raised"
    /\ exc = "RuntimeError"
    /\ sigrok_process = "exited_nonzero"
    /\ returncode = Status(3)

(* C18: teardown never fails, whatever was called before it: it ends       *)
(* without an exception and with a handle whose process is not running; a  *)
(* process is terminated by it only if it was still running; and a         *)
(* teardown that follows a teardown changes nothing but the exit status    *)
(* poll() has read in the meantime.                                        *)
C18_TeardownSafeAndIdempotent ==
    [][ Calls("teardown") =>
            /\ pc' = "torn_down"
            /\ exc' = "none"
            /\ exc_args' = <<>>
            /\ sigrok_process' # "running"
            /\ sigrok_process = "running" =>
                  sigrok_process' \in {"terminated", "exited_0", "exited_nonzero"}
            /\ sigrok_process # "running" => sigrok_process' = sigrok_process
            /\ (sigrok_process = "running" /\ returncode' = NoStatus) =>
                  sigrok_process' = "terminated"
            /\ op = "teardown" =>
                  UNCHANGED <<sigrok_process, pc, exc, exc_args, result, proc_stdout,
                              has_cs_pin, logger, i2cVars, spiVars, verVars,
                              recorder, op, launches, orphans, stdout_text>>
      ]_vars

C18_Witness ==
    /\ op = "teardown"
    /\ pc = "torn_down"
    /\ sigrok_process = "terminated"
    /\ returncode = Status(-15)

(* the state of a recording session, read from the handle and from the     *)
(* operation called last                                                   *)
SessionState(process, last_op) ==
    IF last_op = "teardown" \/ process = "terminated" THEN "Closed"
    ELSE IF process = None THEN "Idle"
    ELSE IF process = "running" THEN "Started"
    ELSE IF process = "killed" THEN "TimedOut"
    ELSE "Collecting"

SessionRank(state) ==
    CASE state = "Idle" -> 0
      [] state = "Started" -> 1
      [] state \in {"Collecting", "TimedOut"} -> 2
      [] state = "Closed" -> 3

(* a step that starts a process *)
Launches == launches' = launches + 1

(* a step of a result operation that waits on the process of the handle *)
Collects ==
    /\ Calls("get_result")
    /\ sigrok_process # None

(* C19 as stated: the session only moves forward along Idle, Started,      *)
(* Collecting or TimedOut, Closed; a process is started only in Idle and   *)
(* is waited for only in Started.                                          *)
C19_SessionOnlyMovesForward ==
    [][ /\ SessionRank(SessionState(sigrok_process', op'))
              >= SessionRank(SessionState(sigrok_process, op))
        /\ Launches => SessionState(sigrok_process, op) = "Idle"
        /\ Collects => SessionState(sigrok_process, op) = "Started"
      ]_vars

(* C19: a session starts in Idle and never returns to it; Started is       *)
(* entered by a successful record only, which is taken from every state,   *)
(* so that one recorder makes one recording after the other; a result      *)
(* operation hands out text only for a process that was started and has    *)
(* exited with status 0; only teardown leads to Closed.                    *)
C19_SessionMayRestart ==
    [][ /\ sigrok_process # None => sigrok_process' # None
        /\ (sigrok_process' = "running" /\ (sigrok_process # "running" \/ Launches)) =>
              /\ Calls("record")
              /\ Launches
              /\ pc' = "recording"
        /\ (Calls("record") /\ Launches) => sigrok_process' = "running"
        /\ Launches => (Calls("record") \/ Calls("measure_signal"))
        /\ (BetweenCalls /\ pc' = "loop") =>
              /\ Collects
              /\ sigrok_process \in {"running", "exited_0"}
              /\ sigrok_process' = "exited_0"
        /\ (SessionState(sigrok_process', op') = "Closed"
               /\ SessionState(sigrok_process, op) # "Closed") => Calls("teardown")
      ]_vars

C19_Witness ==
    /\ recorder = "i2c"
    /\ op = "record"
    /\ pc = "recording"
    /\ sigrok_process = "running"
    /\ launches = 2
    /\ Len(proc_stdout) > 1
    /\ orphans = <<"exited_0">>

(* C20: every process the recorder has started and that is still running   *)
(* is the one held in _sigrok_process, so that after teardown no process   *)
(* started by the recorder is running.                                     *)
C20_NoRunningProcessOutsideHandle ==
    /\ \A i \in 1..Len(orphans) : orphans[i] # "running"
    /\ (BetweenCalls /\ op = "teardown") =>
          /\ sigrok_process # "running"
          /\ \A i \in 1..Len(orphans) : orphans[i] # "running"

(***************************************************************************)
(* Properties of the signal analyzer                                       *)
(***************************************************************************)
IsSampleLine(line) == line \in SampleLines

(* the samples of a capture: the 0/1 lines that follow the header *)
CapturedSamples(text) ==
    LET lines == SplitOnNewline(text)
    IN  SelectSeq(SubSeq(lines, Len(CsvHeader) + 1, Len(lines)), IsSampleLine)

HighCount(samples) == Cardinality({i \in 1..Len(samples) : samples[i] = HighLine})

(* measure_signal has returned a measurement of the capture in stdout_text *)
Measured ==
    /\ recorder = "analyzer"
    /\ op = "measure_signal"
    /\ pc = "returned"

(* C21: the duty cycle measure_signal returns is the number of high        *)
(* samples divided by the number of samples of the capture, the samples    *)
(* being the 0/1 lines that follow the header, and lies in [0,1].          *)
C21_DutyCycleOverSamples ==
    Measured =>
        LET samples == CapturedSamples(stdout_text)
            duty    == result.duty_cycle
        IN  /\ duty.den > 0
            /\ 0 <= duty.num /\ duty.num <= duty.den
            /\ Len(samples) > 0 =>
                  duty.num * Len(samples) = HighCount(samples) * duty.den

(* the samples, from the third on, that are high after a low sample *)
RisingEdges(samples) ==
    {i \in 3..Len(samples) : samples[i - 1] = LowLine /\ samples[i] = HighLine}

(* C22: the frequency measure_signal returns is the number of rising edges *)
(* divided by RECORD_TIME, a rising edge being a high sample that follows  *)
(* a low one, looked for from the third sample on (indexes 0 and 1 are     *)
(* never tested).                                                          *)
C22_FrequencyIsRisingEdgesOverRecordTime ==
    Measured =>
        LET samples   == CapturedSamples(stdout_text)
            frequency == result.frequency
        IN  /\ frequency.den > 0
            /\ frequency.num * RECORD_TIME.num
                  = Cardinality(RisingEdges(samples)) * RECORD_TIME.den * frequency.den

C22_Witness ==
    /\ Measured
    /\ LET samples == CapturedSamples(stdout_text)
       IN  /\ Len(samples) >= 4
           /\ samples[1] = LowLine
           /\ samples[2] = HighLine
           /\ Cardinality(RisingEdges(samples)) = 1
           /\ result.frequency = [num |-> 10, den |-> 1]

Abs(x) == IF x < 0 THEN 0 - x ELSE x

(* the square wave of n whole periods of p samples, h of them high, that   *)
(* begins phase samples into a period                                      *)
SquareWave(p, h, n, phase) ==
    [i \in 1..(p * n) |-> IF ((i - 1 + phase) % p) < h THEN HighLine ELSE LowLine]

(* the square waves a capture is a window of: period, high samples per     *)
(* period, number of periods and phase                                     *)
SquareWavesOf(samples) ==
    {w \in [p : 2..Len(samples), h : 1..Len(samples), n : 1..Len(samples),
            phase : 0..Len(samples)] :
        /\ w.h < w.p
        /\ w.phase < w.p
        /\ w.p * w.n = Len(samples)
        /\ samples = SquareWave(w.p, w.h, w.n, w.phase)}

(* the index, from 0, of the first sample of the window on which a rising  *)
(* edge of the wave falls                                                  *)
FirstRisingEdge(w) == (w.p - w.phase) % w.p

(* the duty cycle is within one sample of h / p *)
DutyWithinOneSample(duty, w) == Abs(duty.num * w.p - w.h * duty.den) <= w.p

(* C23 as stated: for a capture that is n whole periods of a square wave   *)
(* of period p >= 2 with h high samples per period, at any phase, the      *)
(* frequency returned is n / RECORD_TIME to within less than the one edge  *)
(* the count can resolve, and the duty cycle returned is within one sample *)
(* of h / p.                                                               *)
C23_SquareWaveAtEveryPhase ==
    Measured =>
        LET samples   == CapturedSamples(stdout_text)
            frequency == result.frequency
        IN  \A w \in SquareWavesOf(samples) :
               /\ frequency.num * RECORD_TIME.num
                     = w.n * RECORD_TIME.den * frequency.den
               /\ DutyWithinOneSample(result.duty_cycle, w)

(* C23: for such a capture the frequency returned is n / RECORD_TIME when  *)
(* the first rising edge of the window falls on its third sample or later, *)
(* and (n - 1) / RECORD_TIME when it falls on the first or the second      *)
(* sample; the duty cycle returned is within one sample of h / p.          *)
C23_SquareWaveWithinOneEdge ==
    Measured =>
        LET samples   == CapturedSamples(stdout_text)
            frequency == result.frequency
        IN  \A w \in SquareWavesOf(samples) :
               LET edges == IF FirstRisingEdge(w) < 2 THEN w.n - 1 ELSE w.n
               IN  /\ frequency.num * RECORD_TIME.num
                         = edges * RECORD_TIME.den * frequency.den
                   /\ DutyWithinOneSample(result.duty_cycle, w)

C23_Witness ==
    /\ Measured
    /\ CapturedSamples(stdout_text) = SquareWave(4, 1, 2, 3)
    /\ [p |-> 4, h |-> 1, n |-> 2, phase |-> 3] \in SquareWavesOf(CapturedSamples(stdout_text))
    /\ result.frequency = [num |-> 10, den |-> 1]
    /\ result.duty_cycle = [num |-> 2, den |-> 9]

(***************************************************************************)
(* Properties of the I2C event classes                                     *)
(***************************************************************************)
(* the number an event carries, if its class has one *)
EventNumber(event) ==
    CASE event.kind \in {"I2CWriteToAddr", "I2CReadFromAddr"} -> <<event.address>>
      [] event.kind = "I2CDataByte" -> <<event.data>>
      [] OTHER -> <<>>

(* C24: two I2C events are equal if and only if they are of the same class *)
(* and, for I2CWriteToAddr, I2CReadFromAddr and I2CDataByte, carry the     *)
(* same number; == is reflexive and symmetric; events of different classes *)
(* are never equal, whatever numbers they carry.                           *)
C24_EventEqualityIsStructural ==
    verifier = "__eq__" =>
        LET self  == expected[1]
            other == actual[1]
        IN  /\ match <=> (self.kind = other.kind /\ EventNumber(self) = EventNumber(other))
            /\ match <=> I2CEq(other, self)
            /\ I2CEq(self, self) /\ I2CEq(other, other)
            /\ self.kind # other.kind => ~match

C24_Witness ==
    /\ verifier = "__eq__"
    /\ expected = <<I2CWriteToAddr(1)>>
    /\ actual = <<I2CReadFromAddr(1)>>
    /\ ~match
(***************************************************************************)
(* Properties of _parse_test_suite and get_test_details                    *)
(***************************************************************************)
(* a test suite with a list of test cases has been parsed *)
ParsedWithNames ==
    /\ pc \in {"parsed", "returned"}
    /\ FindTestCaseNames(test_suite_output) # <<>>

(* the verdict a block of output gives its test case *)
BlockResult(block) ==
    IF HasSkipMarker(block) THEN SKIPPED
    ELSE IF block[Len(block)].passed = 1 THEN PASSED
    ELSE FAILED

(* block runs from the start marker of name to the finish marker of name *)
IsOwnBlock(block, name) ==
    /\ Len(block) >= 2
    /\ block[1] = TestcaseStart(name)
    /\ block[Len(block)].marker = "__testcase_finish"
    /\ block[Len(block)].name = name

(* C25: every test case recorded with a result other than                  *)
(* PRIOR_TEST_CASE_CRASHED has as its stored output the block from its own *)
(* __testcase_start marker to its own __testcase_finish marker, and its    *)
(* result is SKIPPED if the block has a skip marker, else PASSED if the    *)
(* pass flag of the finish marker is 1, else FAILED.                       *)
C25_StoredOutputIsOwnBlock ==
    ParsedWithNames =>
        \A i \in 1..Len(database) :
            database[i].result # PRIOR_TEST_CASE_CRASHED =>
                /\ IsOwnBlock(database[i].output, database[i].testCaseName)
                /\ database[i].result = BlockResult(database[i].output)

(* the position of the first appearance of name in names *)
FirstAppearance(names, name) ==
    CHOOSE i \in 1..Len(names) :
        /\ names[i] = name
        /\ \A j \in 1..(i - 1) : names[j] # name

(* the number of distinct names that first appear before name does *)
FirstAppearanceRank(names, name) ==
    Cardinality({names[j] : j \in 1..(FirstAppearance(names, name) - 1)})

(* C26: _parse_test_suite records exactly one test case per distinct name  *)
(* of the test-case list, its index the 0-based position of the first      *)
(* appearance of the name among the distinct names, also when the list is  *)
(* printed again after a reset; get_test_details returns the test cases in *)
(* that order.                                                             *)
C26_OneRowPerNameInListOrder ==
    ParsedWithNames =>
        LET names    == FindTestCaseNames(test_suite_output)
            distinct == {names[i] : i \in 1..Len(names)}
        IN  /\ Len(database) = Cardinality(distinct)
            /\ {database[i].testCaseName : i \in 1..Len(database)} = distinct
            /\ \A i \in 1..Len(database) :
                  database[i].testCaseIndex
                      = FirstAppearanceRank(names, database[i].testCaseName)
            /\ pc = "returned" =>
                  /\ Len(result) = Cardinality(distinct)
                  /\ \A k \in 1..Len(result) :
                        /\ result[k] \in distinct
                        /\ FirstAppearanceRank(names, result[k]) = k - 1

(* the list was printed twice and get_test_details has returned both names *)
C26_Witness ==
    /\ pc = "returned"
    /\ Len(FindTestCaseNames(test_suite_output)) = 4
    /\ result = <<"A", "B (1)">>
    /\ Len(database) = 2
    /\ database[2].result = PASSED

(* the row recorded for name; there is one for every listed name *)
RowOf(name) ==
    database[CHOOSE i \in 1..Len(database) : database[i].testCaseName = name]

(* the positions of the start markers of name that "teardown() finished"   *)
(* follows                                                                 *)
CrashedStarts(name) ==
    {i \in 1..Len(test_suite_output) :
        /\ test_suite_output[i] = TestcaseStart(name)
        /\ \E j \in (i + 1)..Len(test_suite_output) :
              test_suite_output[j] = TeardownFinished}

(* the output from the first such start marker to the first                *)
(* "teardown() finished" after it                                          *)
CrashOutput(name) ==
    LET first == CHOOSE i \in CrashedStarts(name) : \A o \in CrashedStarts(name) : i <= o
        ends  == {j \in (first + 1)..Len(test_suite_output) :
                     test_suite_output[j] = TeardownFinished}
        last  == CHOOSE j \in ends : \A o \in ends : j <= o
    IN  SubSeq(test_suite_output, first, last)

(* the blocks of name that ran to completion on their own: its start       *)
(* marker, its finish marker, and no marker of a test case between them    *)
OwnCompletedBlocks(name) ==
    {SubSeq(test_suite_output, i, j) :
        <<i, j>> \in {p \in (1..Len(test_suite_output)) \X (1..Len(test_suite_output)) :
            /\ p[1] < p[2]
            /\ test_suite_output[p[1]] = TestcaseStart(name)
            /\ test_suite_output[p[2]].marker = "__testcase_finish"
            /\ test_suite_output[p[2]].name = name
            /\ \A k \in (p[1] + 1)..(p[2] - 1) :
                  test_suite_output[k].marker
                      \notin {"__testcase_start", "__testcase_finish"}}}

(* C28: with fewer completed blocks than names, the first test case        *)
(* without a completed block is recorded FAILED with the crash output if   *)
(* "teardown() finished" follows its start marker, every test case after   *)
(* it is recorded PRIOR_TEST_CASE_CRASHED with empty output, and a test    *)
(* case before it that ran to completion keeps its own result.             *)
C28_CrashedTestCaseFailsLaterOnesPriorCrashed ==
    ParsedWithNames =>
        LET names   == DictFromKeys(FindTestCaseNames(test_suite_output))
            records == FindTestCaseRecords(test_suite_output, 1)
            crashed == Len(records) + 1
        IN  Len(records) < Len(names) =>
                /\ CrashedStarts(names[crashed]) # {} =>
                      /\ RowOf(names[crashed]).result = FAILED
                      /\ RowOf(names[crashed]).output = CrashOutput(names[crashed])
                /\ \A k \in (crashed + 1)..Len(names) :
                      /\ RowOf(names[k]).result = PRIOR_TEST_CASE_CRASHED
                      /\ RowOf(names[k]).output = <<>>
                /\ \A k \in 1..(crashed - 1) :
                      \A block \in OwnCompletedBlocks(names[k]) :
                          Cardinality(OwnCompletedBlocks(names[k])) = 1 =>
                              RowOf(names[k]).result = BlockResult(block)

(***************************************************************************)
(* What pretty_diff_i2c_data and pretty_diff_spi_data print                *)
(***************************************************************************)
PrintsActual(message) ==
    /\ message.level = "inf"
    /\ \/ message.text \in {"Saw on the I2C bus", "Saw on the SPI bus"}
          /\ message.data = (IF verifier = "pretty_diff_i2c_data"
                             THEN PrettyPrintI2CData(actual) ELSE actual)
       \/ message.text \in {"Saw nothing the I2C bus.", "Saw nothing the SPI bus."}
          /\ actual = <<>>

PrintsExpected(message) ==
    /\ message.level = "inf"
    /\ message.text = "We expected"
    /\ message.data = (IF verifier = "pretty_diff_i2c_data"
                       THEN PrettyPrintI2CData(expected) ELSE expected)

(* C27: pretty_diff_i2c_data and pretty_diff_spi_data print the actual     *)
(* data first, and print the expected data if and only if the verdict they *)
(* return is a mismatch, be it in the length or at an index.               *)
C27_ExpectedPrintedIffMismatch ==
    (pc = "verified" /\ verifier \in {"pretty_diff_i2c_data", "pretty_diff_spi_data"})
    => /\ Len(logger) >= 1
       /\ PrintsActual(logger[1])
       /\ (\E i \in 2..Len(logger) : PrintsExpected(logger[i])) <=> (match = FALSE)

(***************************************************************************)
(* Properties of get_all_target_children                                   *)
(***************************************************************************)
(* the targets a path of n or fewer edges, and at least one, leads to *)
RECURSIVE ReachableWithin(_, _)
ReachableWithin(target, n) ==
    IF n = 0 THEN {}
    ELSE LET before == ReachableWithin(target, n - 1)
         IN  before \cup {edge[2] : edge \in {e \in target_graph :
                                                e[1] \in before \cup {target}}}

Reachable(target) == ReachableWithin(target, MaxTargets)

(* C29 as stated: for every relation stored in TargetGraph a call of      *)
(* get_all_target_children(t) ends, and what it returns is the set of the  *)
(* targets reachable from t by one or more parent-to-child edges.          *)
C29_TerminatesWithReachableSet ==
    [](pc = "exploring" => <>(pc = "returned" /\ result = Reachable(target_name)))

(* neither the target nor a target reachable from it is its own descendant *)
NoCycleBelow(target) ==
    \A t \in Reachable(target) \cup {target} : t \notin Reachable(t)

(* C29, amended: for every relation stored in TargetGraph that has no      *)
(* cycle through t or a target reachable from t, a call of                 *)
(* get_all_target_children(t) ends, and what it returns is the set of the  *)
(* targets reachable from t by one or more parent-to-child edges.          *)
C29_TerminatesWithReachableSetWithoutCycle ==
    []((pc = "exploring" /\ NoCycleBelow(target_name))
            => <>(pc = "returned" /\ result = Reachable(target_name)))

(* the children of a target have been returned while another target is     *)
(* stored as its own parent                                                *)
C29_Witness ==
    /\ pc = "returned"
    /\ target_graph = {<<1, 1>>, <<2, 3>>}
    /\ target_name = 2
    /\ result = {3}

(***************************************************************************)
(* Properties of the transfer callbacks of the slave-comms host tests      *)
(***************************************************************************)
BridgeRaised == transfer[1].bridge.raised

(* the bridge returned other bytes than the command expects *)
ReadbackDiffers ==
    /\ transfer[1].callback # "write_bytes_to_slave"
    /\ ~transfer[1].bridge.raised
    /\ transfer[1].bridge.data # transfer[1].expected_bytes

(* the recorder returned a trace that is not the expected one *)
TraceDiffers ==
    /\ pc = "replied"
    /\ actual # expected

(* the recorder did not fail: its get_result returns when it is called *)
RecorderReturned == transfer[1].recorded.raised = "none"

(* C30: a transfer callback called with a well-formed command, the         *)
(* recorder working, sends exactly one reply, its verdict, and the verdict *)
(* is the failure value whenever the bridge raised an error, the bytes     *)
(* read back differ from the expected ones or the recorded trace does not  *)
(* match; an error of the bridge does not keep the reply from being sent.  *)
C30_OneVerdictReplyPerTransfer ==
    (transfer # <<>> /\ RecorderReturned) =>
        /\ Len(sent_kv) = 1
        /\ sent_kv[1][1] = transfer[1].callback
        /\ sent_kv[1][2] \in {"complete", "error"}
        /\ (BridgeRaised \/ ReadbackDiffers \/ TraceDiffers) => sent_kv[1][2] = "error"


=============================================================================
